---- MODULE Spec2Model ----
(***************************************************************************)
(* Model of the LilyCloudProto storage gateway: the background task        *)
(* worker and the request handlers that create and touch Task records,     *)
(* the trash ledger kept next to the trash root, the LocalDriver path      *)
(* resolution and the mount resolver of the StorageService.                *)
(***************************************************************************)
EXTENDS Integers, Sequences, FiniteSets, TLC

(***************************************************************************)
(* Bounds of the model.                                                    *)
(***************************************************************************)
MaxTasks == 2
MaxNames == 2
MaxArchives == 2
MaxDeletes == 1
MaxTrashIds == 4
MaxListLen == 3
MaxPathLen == 4
MaxHandlers == 2
MaxTokens == 4
MaxTime == 3

(***************************************************************************)
(* Progress is a float in the code; the model keeps it as a fixed-point    *)
(* number with ProgressUnit steps per percent, so 100.0 is Full.           *)
(***************************************************************************)
ProgressUnit == 100
Full == 100 * ProgressUnit

TaskIds == 1..MaxTasks
NoTask == [status |-> "none"]
\* no _get_unique_entry_name call is in progress
NoProbe == [desired |-> <<>>, counter |-> 0, result |-> <<>>]

\* domain/values/task.py: TaskStatus
TaskStatus == {"pending", "running", "completed", "failed"}
\* TaskWorker._handlers: the operation types the worker dispatches
HandlerTypes == {"copy", "move", "delete", "trash", "restore"}
\* handlers that hand the name list to a driver batch method
DriverBatchTypes == {"copy", "move", "delete"}
\* the operation types the request handlers of the model ask for: one
\* handled by a driver batch, one by the trash handlers
RequestTypes == {"copy", "trash"}
\* messages of the exceptions a driver batch can raise
ErrMsgs == {"Conflict"}

VARIABLES
    db,         \* the tasks table: task id -> record, or NoTask
    nextId,     \* next primary key of the tasks table
    queue,      \* TaskWorker._queue: the ids put by add_task
    creating,   \* ids add_task has created and not yet put on the queue
    wpc,        \* position of the worker coroutine
    wcur,       \* task id the worker holds (0: none)
    widx,       \* number of names the running handler has gone through
    wdone,      \* `processed` counter of the trash/restore handlers
    werr,       \* message of the exception caught in _process_task
    apc,        \* position of the archive stream generator
    acur,       \* task id the archive generator holds (0: none)
    aidx,       \* number of names the archive generator has gone through
    narchive,   \* number of archive requests so far
    ndelete,    \* number of delete requests so far
    enqueued,   \* history: ids in the order add_task put them
    started,    \* history: ids in the order the worker marked them RUNNING
    wlog,       \* history: progress values the worker persisted for wcur
    running,    \* TaskWorker._running
    wrunning,   \* history: ids the worker marked RUNNING and has not yet
                \* persisted COMPLETED or FAILED
    committed,  \* history: ids whose record a create committed PENDING
    createFailed,\* history: an add_task call was left by the exception of
                \* TaskRepository.create
    files,      \* the local filesystem: the objects [path, dir] that exist
    ledger,     \* the trash table: the Trash records
    nextTrashId,\* next primary key of the trash table
    tcur,       \* the item a trash handler is in the middle of (or NoItem)
    tk,         \* the task the trash handlers are working on (or NoJob)
    tres,       \* the Task record of the last task of the trash handlers
    snap,       \* history: filesystem and ledger the running task found
    probe,      \* the _get_unique_entry_name call in progress (or NoProbe)
    disk,       \* LocalDriver: the objects [path, dir] on the host
    multistatus,\* WebDAV: the last PROPFIND and its response
    listing,    \* files API: the last list request and its response
    outcome,    \* LocalDriver: how the last operation ended
    touched,    \* history: the physical paths the last operation worked on
    bucket,     \* S3Driver: the objects [key, data] of the bucket
    batch,      \* the batch a driver is working on (or NoBatch)
    bres,       \* how the last batch of a driver ended
    renamed,    \* the last rename call of a driver and its error
    cache,      \* StorageService._cache: the storages in insertion order
    asked,      \* the path of the last get_driver call
    resolved,   \* the storage the last get_driver call built its driver for
    rows,       \* the storages table: the rows [storage_id, mount_path]
    admin,      \* the admin handlers in flight: handler -> call, or NoCall
    tokens,     \* the tokens table: rows [token_id, type, user_id, expires_at]
    nextTokenId,\* next primary key of the tokens table
    now,        \* datetime.now(UTC), in units of time
    authed      \* the last call of get_user_from_token or refresh and its
                \* outcome

reqVars == <<nextId, creating, narchive, ndelete, committed, createFailed>>
workerVars == <<wpc, wcur, widx, wdone, werr>>
archiveVars == <<apc, acur, aidx>>
taskVars == <<db, queue, reqVars, workerVars, archiveVars,
              enqueued, started, wlog, wrunning, running>>

trashVars == <<files, ledger, nextTrashId, tcur, tk, tres, snap, probe>>

batchVars == <<bucket, batch, bres, renamed>>
pathVars == <<disk, outcome, touched, multistatus, listing, batchVars>>
adminVars == <<rows, admin>>
mountVars == <<cache, asked, resolved, adminVars>>

\* what the task actions leave alone
authVars == <<tokens, nextTokenId, now, authed>>
otherVars == <<trashVars, pathVars, mountVars, authVars>>

vars == <<taskVars, trashVars, pathVars, mountVars, authVars>>

(***************************************************************************)
(* TaskWorker._process_task.progress_callback: done/total*100 clamped to   *)
(* [0,100]; 0 when total is 0.                                             *)
(***************************************************************************)
Min(a, b) == IF a < b THEN a ELSE b
Max(a, b) == IF a > b THEN a ELSE b

ProgressValue_Remaining(done, total) ==
    IF total # 0
    THEN Min(Max(((total - done) * Full) \div total, 0), Full)
    ELSE 0

ProgressValue(done, total) ==
    IF total # 0
    THEN Min(Max((done * Full) \div total, 0), Full)
    ELSE 0

\* progress_callback: task.progress = ...; repo.update(task).  The update
\* writes the progress column only.
ProgressCallback(t, done, total) ==
    /\ db' = [db EXCEPT ![t].progress = ProgressValue(done, total)]
    /\ wlog' = Append(wlog, ProgressValue(done, total))

(***************************************************************************)
(* TaskWorker.start: what the loop does with an exception that leaves      *)
(* _process_task: it is logged, the finally clause runs and the loop goes  *)
(* on ("done").                                                            *)
(***************************************************************************)
StartCatch == "done"

(***************************************************************************)
(* TaskWorker.add_task: await self._queue.put(...) on an asyncio.Queue,    *)
(* which hands the items out first in, first out.                          *)
(***************************************************************************)
QueuePut_Front(q, t) == <<t>> \o q

QueuePut(q, t) == Append(q, t)

(***************************************************************************)
(* TaskService.add_task (called by the copy, move, delete, trash and       *)
(* restore request handlers), first part: TaskRepository.create commits    *)
(* the record PENDING with progress 0.  The request then waits for its     *)
(* session to close before it goes on.                                     *)
(***************************************************************************)
AddTaskCreate(type, total) ==
    /\ nextId <= MaxTasks
    /\ db' = [db EXCEPT ![nextId] =
                [status |-> "pending", progress |-> 0, message |-> "",
                 type |-> type, total |-> total]]
    /\ nextId' = nextId + 1
    /\ creating' = creating \cup {nextId}
    /\ committed' = IF db'[nextId].status = "pending"
                    THEN committed \cup {nextId} ELSE committed
    /\ UNCHANGED <<queue, narchive, ndelete, createFailed, workerVars, archiveVars, enqueued, started, wlog,
                   wrunning, running>>
    /\ UNCHANGED otherVars

(***************************************************************************)
(* TaskService.add_task, lines 52-62: what add_task does when              *)
(* TaskRepository.create raises.  There is no handler around the call, so  *)
(* the exception leaves add_task ("raise") before line 62 is reached;      *)
(* "enqueue" would be the exception passed over and the put made anyway.   *)
(***************************************************************************)
CreateFailure_Swallowed == "enqueue"

CreateFailure == "raise"

(***************************************************************************)
(* TaskService.add_task when the commit of TaskRepository.create fails:    *)
(* no record is written.                                                   *)
(***************************************************************************)
AddTaskCreateFails ==
    /\ nextId <= MaxTasks
    /\ createFailed' = TRUE
    /\ IF CreateFailure = "raise"
       THEN UNCHANGED <<queue, enqueued>>
       ELSE /\ queue' = QueuePut(queue, nextId)
            /\ enqueued' = Append(enqueued, nextId)
    /\ UNCHANGED <<db, nextId, creating, narchive, ndelete, committed,
                   workerVars, archiveVars, started, wlog, wrunning,
                   running>>
    /\ UNCHANGED otherVars

(***************************************************************************)
(* TaskService.add_task, second part, and TaskWorker.add_task: the id of   *)
(* the created task is put at the end of the worker queue.                 *)
(***************************************************************************)
AddTaskEnqueue(t) ==
    /\ t \in creating
    /\ creating' = creating \ {t}
    /\ queue' = QueuePut(queue, t)
    /\ enqueued' = Append(enqueued, t)
    /\ UNCHANGED <<db, nextId, narchive, ndelete, committed, createFailed, workerVars, archiveVars, started, wlog,
                   wrunning, running>>
    /\ UNCHANGED otherVars

(***************************************************************************)
(* FileTransferService.create_download_task: a DOWNLOAD task is committed  *)
(* PENDING; it is not put on the worker queue.                             *)
(***************************************************************************)
CreateDownloadTask(total) ==
    /\ nextId <= MaxTasks
    /\ db' = [db EXCEPT ![nextId] =
                [status |-> "pending", progress |-> 0,
                 message |-> "Ready to stream",
                 type |-> "download", total |-> total]]
    /\ nextId' = nextId + 1
    /\ committed' = IF db'[nextId].status = "pending"
                    THEN committed \cup {nextId} ELSE committed
    /\ UNCHANGED <<queue, creating, narchive, ndelete, createFailed, workerVars, archiveVars, enqueued,
                   started, wlog, wrunning, running>>
    /\ UNCHANGED otherVars

(***************************************************************************)
(* apis/admin/task.py delete_task: removes the record; a queued id of the  *)
(* task stays in the queue.                                                *)
(***************************************************************************)
DeleteTask(t) ==
    /\ ndelete < MaxDeletes
    /\ ndelete' = ndelete + 1
    /\ db[t] # NoTask
    /\ db' = [db EXCEPT ![t] = NoTask]
    /\ wrunning' = wrunning \ {t}
    /\ UNCHANGED running
    /\ UNCHANGED <<queue, nextId, creating, narchive, committed, createFailed,
                   workerVars, archiveVars, enqueued, started, wlog>>
    /\ UNCHANGED otherVars

(***************************************************************************)
(* TaskWorker.start: payload = await self._queue.get()                     *)
(***************************************************************************)
WorkerDequeue ==
    /\ wpc = "idle"
    /\ queue # <<>>
    /\ wcur' = Head(queue)
    /\ queue' = Tail(queue)
    /\ wpc' = "load"
    /\ UNCHANGED <<db, reqVars, widx, wdone, werr, archiveVars, enqueued,
                   started, wlog, wrunning, running>>
    /\ UNCHANGED otherVars

(***************************************************************************)
(* TaskWorker._process_task, lines 84-93: get_by_id; a missing record      *)
(* raises NotFoundError out of _process_task (caught in start); otherwise  *)
(* the task is persisted RUNNING whatever its status was.                  *)
(***************************************************************************)
ProcessTaskLoad ==
    /\ wpc = "load"
    /\ IF db[wcur] = NoTask
       THEN /\ wpc' = StartCatch
            /\ UNCHANGED <<db, started, wrunning, running>>
       ELSE /\ db' = [db EXCEPT ![wcur].status = "running"]
            /\ started' = Append(started, wcur)
            /\ wrunning' = wrunning \cup {wcur}
            /\ UNCHANGED running
            /\ wpc' = "dispatch"
    /\ UNCHANGED <<queue, reqVars, wcur, widx, wdone, werr, archiveVars,
                   enqueued, wlog>>
    /\ UNCHANGED otherVars

(***************************************************************************)
(* A record deleted while the worker holds it: every repo.update raises    *)
(* (no row matches), also the one in the except branch, so the exception   *)
(* leaves _process_task and is caught in start.                            *)
(***************************************************************************)
WorkerLostRecord ==
    /\ wpc \in {"dispatch", "handler", "complete", "fail"}
    /\ db[wcur] = NoTask
    /\ wpc' = StartCatch
    /\ UNCHANGED <<db, queue, reqVars, wcur, widx, wdone, werr, archiveVars,
                   enqueued, started, wlog, wrunning, running>>
    /\ UNCHANGED otherVars

(***************************************************************************)
(* TaskWorker._process_task, lines 101-106: handler lookup, and the checks *)
(* a handler makes before its loop (source dir given, directories exist):  *)
(* each may raise.                                                         *)
(***************************************************************************)
ProcessTaskDispatch ==
    /\ wpc = "dispatch"
    /\ db[wcur] # NoTask
    /\ IF db[wcur].type \notin HandlerTypes
       THEN wpc' = "fail" /\ werr' = "Unsupported task type"
       ELSE \/ wpc' = "handler" /\ werr' = werr
            \/ wpc' = "fail" /\ werr' = "NotFound"
    /\ UNCHANGED <<db, queue, reqVars, wcur, widx, wdone, archiveVars,
                   enqueued, started, wlog, wrunning, running>>
    /\ UNCHANGED otherVars

(***************************************************************************)
(* LocalDriver.copy / move / delete: one name per step, in list order.     *)
(* A name that does not exist is skipped without a callback, any other     *)
(* error aborts the batch, a processed name calls                          *)
(* progress_callback(index, total).                                        *)
(***************************************************************************)
DriverBatchItem ==
    /\ wpc = "handler"
    /\ db[wcur] # NoTask
    /\ db[wcur].type \in DriverBatchTypes
    /\ widx < db[wcur].total
    /\ \/ /\ widx' = widx + 1                        \* skipped
          /\ UNCHANGED <<db, wpc, werr, wlog>>
       \/ \E m \in ErrMsgs :                         \* raised
             /\ wpc' = "fail"
             /\ werr' = m
             /\ UNCHANGED <<db, widx, wlog>>
       \/ /\ widx' = widx + 1                        \* processed
          /\ ProgressCallback(wcur, widx + 1, db[wcur].total)
          /\ UNCHANGED <<wpc, werr>>
    /\ UNCHANGED <<queue, reqVars, wcur, wdone, archiveVars, enqueued,
                   started, wrunning, running>>
    /\ UNCHANGED otherVars

(***************************************************************************)
(* TaskWorker._process_trash_task / _process_restore_task /                *)
(* _process_delete_trash_task: one name per step, in list order.  A name   *)
(* that fails is recorded and the loop goes on; a processed name calls     *)
(* progress_callback(processed, total).                                    *)
(***************************************************************************)
LedgerBatchItem ==
    /\ wpc = "handler"
    /\ db[wcur] # NoTask
    /\ db[wcur].type \notin DriverBatchTypes
    /\ widx < db[wcur].total
    /\ widx' = widx + 1
    /\ \/ UNCHANGED <<db, wdone, wlog>>              \* failed, loop goes on
       \/ /\ wdone' = wdone + 1                      \* processed
          /\ ProgressCallback(wcur, wdone + 1, db[wcur].total)
    /\ probe' = NoProbe                 \* the calls made for the item are over
    /\ UNCHANGED <<queue, reqVars, wpc, wcur, werr, archiveVars, enqueued,
                   started, wrunning, running>>
    /\ UNCHANGED <<files, ledger, nextTrashId, tcur, tk, tres, snap, pathVars,
                   mountVars, authVars>>

(***************************************************************************)
(* The handler's loop is over.  The driver batch returns; the trash        *)
(* handlers call _validate_trash_task_result, which raises when every      *)
(* name failed.                                                            *)
(***************************************************************************)
HandlerReturn ==
    /\ wpc = "handler"
    /\ db[wcur] # NoTask
    /\ widx = db[wcur].total
    /\ IF /\ db[wcur].type \notin DriverBatchTypes
          /\ wdone = 0
          /\ db[wcur].total > 0
       THEN wpc' = "fail" /\ werr' = "All files failed"
       ELSE wpc' = "complete" /\ werr' = werr
    /\ UNCHANGED <<db, queue, reqVars, wcur, widx, wdone, archiveVars,
                   enqueued, started, wlog, wrunning, running>>
    /\ UNCHANGED otherVars

\* history: the worker's task leaves wrunning when the update it has just
\* made left a terminal status in the record
Settled(t) ==
    IF db'[t].status \in {"completed", "failed"}
    THEN wrunning \ {t}
    ELSE wrunning

(***************************************************************************)
(* TaskWorker._process_task, lines 108-112: status COMPLETED and progress  *)
(* 100.0 go out in the same update.                                        *)
(***************************************************************************)
CompletedRecord_NoStatus(rec) == [rec EXCEPT !.progress = Full]

CompletedRecord_NoProgress(rec) == [rec EXCEPT !.status = "completed"]

CompletedRecord(rec) == [rec EXCEPT !.status = "completed", !.progress = Full]

ProcessTaskComplete ==
    /\ wpc = "complete"
    /\ db[wcur] # NoTask
    /\ db' = [db EXCEPT ![wcur] = CompletedRecord(db[wcur])]
    /\ wlog' = Append(wlog, CompletedRecord(db[wcur]).progress)
    /\ wrunning' = Settled(wcur)
    /\ UNCHANGED running
    /\ wpc' = "done"
    /\ UNCHANGED <<queue, reqVars, wcur, widx, wdone, werr, archiveVars,
                   enqueued, started>>
    /\ UNCHANGED otherVars

(***************************************************************************)
(* TaskWorker._process_task, lines 114-119: status FAILED and the message  *)
(* of the exception; progress is not touched.                              *)
(***************************************************************************)
FailedRecord_NoMessage(rec, error) == [rec EXCEPT !.status = "failed"]

FailedRecord(rec, error) == [rec EXCEPT !.status = "failed", !.message = error]

ProcessTaskFail ==
    /\ wpc = "fail"
    /\ db[wcur] # NoTask
    /\ db' = [db EXCEPT ![wcur] = FailedRecord(db[wcur], werr)]
    /\ wrunning' = Settled(wcur)
    /\ UNCHANGED running
    /\ wpc' = "done"
    /\ UNCHANGED <<queue, reqVars, wcur, widx, wdone, werr, archiveVars,
                   enqueued, started, wlog>>
    /\ UNCHANGED otherVars

(***************************************************************************)
(* TaskWorker.start, finally clause: task_done(), then the test of        *)
(* _running: the next turn of the loop waits in _queue.get(), or start     *)
(* returns.                                                                *)
(***************************************************************************)
WorkerTaskDone ==
    /\ wpc = "done"
    /\ wpc' = IF running THEN "idle" ELSE "returned"
    /\ wcur' = 0
    /\ widx' = 0
    /\ wdone' = 0
    /\ werr' = ""
    /\ wlog' = <<>>
    /\ UNCHANGED <<db, queue, reqVars, archiveVars, enqueued, started,
                   wrunning, running>>
    /\ UNCHANGED otherVars

(***************************************************************************)
(* main.py lifespan, the finally clause: stop() sets _running to False and *)
(* returns, and background_task.cancel() follows with no await in between. *)
(* The worker is suspended at an await; CancelledError is raised there.    *)
(* It is no Exception, so neither the except clause of _process_task       *)
(* (line 114) nor the one of start (line 71) catches it: the coroutine     *)
(* ends where it was, and no update of the Task is made.                   *)
(***************************************************************************)
LifespanShutdown_StopOnly ==
    /\ running
    /\ running' = FALSE
    /\ UNCHANGED <<db, queue, reqVars, workerVars, archiveVars,
                   enqueued, started, wlog, wrunning>>
    /\ UNCHANGED otherVars

LifespanShutdown ==
    /\ wpc # "cancelled"
    /\ wpc' = "cancelled"
    /\ running' = FALSE
    /\ UNCHANGED <<db, queue, reqVars, wcur, widx, wdone, werr, archiveVars,
                   enqueued, started, wlog, wrunning>>
    /\ UNCHANGED otherVars

(***************************************************************************)
(* FileTransferService.archive_stream_generator(task_id), called by the    *)
(* download_archive handler with the id of the request: the task is        *)
(* loaded by id, whatever its type or status, and persisted RUNNING.       *)
(***************************************************************************)
ArchiveStart(t) ==
    /\ apc = "idle"
    /\ narchive < MaxArchives
    /\ narchive' = narchive + 1
    /\ db[t] # NoTask
    /\ db' = [db EXCEPT ![t].status = "running"]
    /\ apc' = "zip"
    /\ acur' = t
    /\ aidx' = 0
    /\ UNCHANGED <<queue, nextId, creating, ndelete, committed, createFailed,
                   workerVars, enqueued, started, wlog, wrunning, running>>
    /\ UNCHANGED otherVars

\* one name zipped (a name that cannot be read becomes an error entry of
\* the archive): task.progress = idx / total * 100, committed
ArchiveFile ==
    /\ apc = "zip"
    /\ db[acur] # NoTask
    /\ aidx < db[acur].total
    /\ aidx' = aidx + 1
    /\ db' = [db EXCEPT ![acur].progress =
                 ((aidx + 1) * Full) \div db[acur].total]
    /\ UNCHANGED <<queue, reqVars, workerVars, apc, acur, enqueued, started,
                   wlog, wrunning, running>>
    /\ UNCHANGED otherVars

\* all names zipped: status COMPLETED, progress 100.0, committed
ArchiveFinish ==
    /\ apc = "zip"
    /\ db[acur] # NoTask
    /\ aidx = db[acur].total
    /\ db' = [db EXCEPT ![acur].status = "completed",
                        ![acur].progress = Full]
    /\ apc' = "idle"
    /\ acur' = 0
    /\ aidx' = 0
    /\ UNCHANGED <<queue, reqVars, workerVars, enqueued, started, wlog,
                   wrunning, running>>
    /\ UNCHANGED otherVars

\* the record was deleted under the generator: the commit raises, so does
\* the commit of the except branch, and the generator ends
ArchiveLostRecord ==
    /\ apc = "zip"
    /\ db[acur] = NoTask
    /\ apc' = "idle"
    /\ acur' = 0
    /\ aidx' = 0
    /\ UNCHANGED <<db, queue, reqVars, workerVars, enqueued, started, wlog,
                   wrunning, running>>
    /\ UNCHANGED otherVars

(***************************************************************************)
(* The trash handlers of the worker.  A path is a sequence of segments;    *)
(* an entry name is the path of an object relative to the trash root.      *)
(* The handlers are modelled from the point where the worker calls them:   *)
(* a task waits on the queue behind others, so a handler can find any      *)
(* state of the filesystem and the ledger, whatever the request handler    *)
(* saw when it created the task.                                           *)
(***************************************************************************)
\* the directories the requests name (task.src_dir, resolved)
SrcDirs == {<<"a">>, <<"b">>}
\* the names the requests list (task.file_names); no object is named "m"
FileNames == {"a.txt", "d", "m"}
\* the names of the requests of the batch specification: one more file
BatchFileNames == FileNames \cup {"g"}
\* the users that own tasks and Trash records (task.user_id)
Users == {1, 2}
\* StorageService.get_trash_root: the one trash root of the local storage
TrashRoot == <<".trash">>
NoItem == [src |-> <<>>]
NoJob == [kind |-> "none"]
NoResult == [status |-> "none", progress |-> 0, message |-> ""]
\* history: what a task found when it started, and (origin) what the TRASH
\* task of one file found that ended just before it
NoOrigin == [files |-> {}, ledger |-> {}]
NoSnap == [files |-> {}, ledger |-> {}, origin |-> NoOrigin]
Snapshot(origin) == [files |-> files, ledger |-> ledger, origin |-> origin]
TrashIds == 1..MaxTrashIds

\* the name lists of the requests: up to MaxListLen different names
NameLists(names) ==
    {s \in UNION {[1..n -> names] : n \in 1..MaxListLen} :
        \A i, j \in 1..Len(s) : s[i] = s[j] => i = j}

\* the TRASH requests: user 1 works in directory a, user 2 trashes b/a.txt
RequestsOver(names) ==
    {r \in [user : Users, dir : SrcDirs, names : NameLists(names)] :
        \/ r.user = 1 /\ r.dir = <<"a">>
        \/ r.user = 2 /\ r.dir = <<"b">> /\ r.names = <<"a.txt">>}
TrashRequests == RequestsOver(FileNames)
BatchRequests == RequestsOver(BatchFileNames)

\* the id lists of the delete-by-id requests (task.dst_dirs[1:])
IdLists ==
    {<<i>> : i \in TrashIds}
        \cup {p \in {<<i, j>> : i \in TrashIds, j \in TrashIds} : p[1] # p[2]}

IsPrefix(p, q) == Len(p) <= Len(q) /\ SubSeq(q, 1, Len(p)) = p
\* os.path.relpath(path, base) for a path below base
RelPath(path, base) == SubSeq(path, Len(base) + 1, Len(path))
\* os.path.dirname
DirName(p) == SubSeq(p, 1, Len(p) - 1)
\* os.path.exists
PathExists(fs, p) == \E e \in fs : e.path = p
\* the object at p with everything below it
Subtree(fs, p) == {e \in fs : IsPrefix(p, e.path)}
\* os.makedirs(p, exist_ok=True)
MakeDirs(fs, p) ==
    fs \cup {[path |-> SubSeq(p, 1, k), dir |-> TRUE, data |-> 0] :
                k \in {j \in 1..Len(p) : ~PathExists(fs, SubSeq(p, 1, j))}}
\* shutil.move(src, dst), dst not existing: the whole tree goes to dst
MoveTree(fs, src, dst) ==
    (fs \ Subtree(fs, src))
        \cup {[e EXCEPT !.path = dst \o RelPath(e.path, src)] :
                 e \in Subtree(fs, src)}
\* shutil.rmtree / os.remove
RemoveTree(fs, p) == fs \ Subtree(fs, p)

\* os.walk hands out a directory before what it holds
RECURSIVE WalkOrder(_)
WalkOrder(S) ==
    IF S = {} THEN <<>>
    ELSE LET e == CHOOSE x \in S : \A o \in S : Len(x.path) <= Len(o.path)
         IN  <<e>> \o WalkOrder(S \ {e})

\* a result set of the trash table in primary-key order
RECURSIVE ById(_)
ById(ids) ==
    IF ids = {} THEN <<>>
    ELSE LET m == CHOOSE x \in ids : \A y \in ids : x <= y
         IN  <<m>> \o ById(ids \ {m})

(***************************************************************************)
(* TaskWorker._collect_all_entries: one entry for the object and one for   *)
(* every directory and file below it, the top-level entry first; entry     *)
(* names are relative to the directory of the request.                     *)
(***************************************************************************)
CollectAllEntries_RelativeOriginal(fs, src_path, base_dir) ==
    LET walk == WalkOrder(Subtree(fs, src_path))
    IN  [i \in 1..Len(walk) |->
            [entry_name |-> RelPath(walk[i].path, base_dir),
             original_path |-> RelPath(walk[i].path, base_dir)]]

CollectAllEntries(fs, src_path, base_dir) ==
    LET walk == WalkOrder(Subtree(fs, src_path))
    IN  [i \in 1..Len(walk) |->
            [entry_name |-> RelPath(walk[i].path, base_dir),
             original_path |-> walk[i].path]]

\* TrashRepository.find_by_entry_name
FindByEntryName(led, name) == {r \in led : r.entry_name = name}

\* os.path.splitext of a name of the model: <<name, ext>>
SplitExt(s) == IF s = "a.txt" THEN <<"a", ".txt">> ELSE <<s, "">>

\* f"{name}({counter}){ext}" of _get_unique_entry_name
Numbered_AfterExt(name, counter) ==
    [name EXCEPT ![Len(name)] = @ \o "(" \o ToString(counter) \o ")"]

Numbered(name, counter) ==
    [name EXCEPT ![Len(name)] =
        SplitExt(@)[1] \o "(" \o ToString(counter) \o ")" \o SplitExt(@)[2]]

\* the test _get_unique_entry_name makes of a candidate: nothing at that
\* name in the trash root and no record with that entry name
NameFree(fs, led, name) ==
    /\ ~PathExists(fs, TrashRoot \o name)
    /\ FindByEntryName(led, name) = {}

(***************************************************************************)
(* TaskWorker._get_unique_entry_name: the desired name when it is free,    *)
(* else the first name(counter)ext that is.                                *)
(***************************************************************************)
GetUniqueEntryName(fs, led, desired) ==
    IF NameFree(fs, led, desired) THEN desired
    ELSE LET k == CHOOSE c \in 1..(Cardinality(fs) + Cardinality(led) + 1) :
                     /\ NameFree(fs, led, Numbered(desired, c))
                     /\ \A b \in 1..(c - 1) :
                           ~NameFree(fs, led, Numbered(desired, b))
         IN  Numbered(desired, k)

(***************************************************************************)
(* TaskWorker._get_unique_entry_name step by step, as the worker runs it:  *)
(* one test of a candidate per step (os.path.exists and                    *)
(* find_by_entry_name), the counter going up by one after a taken name.    *)
(* The call holds the desired name, the counter and, once it has           *)
(* returned, the result.                                                   *)
(***************************************************************************)
Searching == probe.desired # <<>> /\ probe.result = <<>>

\* counter += 1 (line 607)
NextCounter_Stuck(counter) == counter

NextCounter(counter) == counter + 1

\* lines 590-599: the desired name is returned when it is free, else the
\* loop starts with counter = 1
UniqueNameStart(desired) ==
    /\ ~Searching
    /\ probe' = IF NameFree(files, ledger, desired)
                THEN [desired |-> desired, counter |-> 0, result |-> desired]
                ELSE [desired |-> desired, counter |-> 1, result |-> <<>>]
    /\ UNCHANGED <<files, ledger, nextTrashId, tcur, tk, tres, snap,
                   taskVars, authVars, pathVars, mountVars>>

\* lines 600-607: one turn of the while loop
UniqueNameTry ==
    /\ Searching
    /\ LET new_name == Numbered(probe.desired, probe.counter)
       IN  probe' = IF NameFree(files, ledger, new_name)
                    THEN [probe EXCEPT !.result = new_name]
                    ELSE [probe EXCEPT !.counter = NextCounter(@)]
    /\ UNCHANGED <<files, ledger, nextTrashId, tcur, tk, tres, snap,
                   taskVars, authVars, pathVars, mountVars>>

(***************************************************************************)
(* TaskWorker._adjust_entry_names: the top-level entry takes the new name, *)
(* an entry below it the new name in place of the old prefix.              *)
(***************************************************************************)
AdjustEntryNames(entries, original_prefix, new_prefix) ==
    [i \in 1..Len(entries) |->
        IF entries[i].entry_name = original_prefix
        THEN [entries[i] EXCEPT !.entry_name = new_prefix]
        ELSE IF /\ IsPrefix(original_prefix, entries[i].entry_name)
                /\ Len(entries[i].entry_name) > Len(original_prefix)
             THEN [entries[i] EXCEPT !.entry_name =
                      new_prefix \o RelPath(@, original_prefix)]
             ELSE entries[i]]

\* TrashRepository.create_batch: one record per entry, keys in list order
CreateBatch(led, first_id, user_id, entries) ==
    led \cup {[trash_id |-> first_id + i - 1,
               user_id |-> user_id,
               entry_name |-> entries[i].entry_name,
               original_path |-> entries[i].original_path] :
                 i \in 1..Len(entries)}

\* TrashRepository.delete_by_entry_names
DeleteByEntryNames(led, names) == {r \in led : r.entry_name \notin names}

\* TrashRepository.delete(record)
DeleteRecord(led, record) == led \ {record}

\* TrashRepository.find_by_user_and_path with an empty directory prefix:
\* the user's records with one of the entry names
FindByUserAndPath(led, user_id, names) ==
    ById({r.trash_id : r \in {x \in led :
            /\ x.user_id = user_id
            /\ \E i \in 1..Len(names) : x.entry_name = names[i]}})

\* TrashRepository.list_by_user
ListByUser(led, user_id) ==
    ById({r.trash_id : r \in {x \in led : x.user_id = user_id}})

\* TrashRepository.find_by_ids
FindByIds(led, trash_ids) ==
    ById({r.trash_id : r \in {x \in led :
            \E i \in 1..Len(trash_ids) : x.trash_id = trash_ids[i]}})

\* the record a handler holds for a key it has loaded
RecordOf(led, trash_id) == CHOOSE r \in led : r.trash_id = trash_id

(***************************************************************************)
(* The task a trash handler is working on: its request, the number of      *)
(* items gone through (idx), the `processed` counter and the `failed`      *)
(* list.                                                                   *)
(***************************************************************************)
NewJob(kind, user, dir, names, ids) ==
    [kind |-> kind, user |-> user, dir |-> dir, names |-> names,
     ids |-> ids, total |-> IF kind = "trash" THEN Len(names) ELSE Len(ids),
     idx |-> 0, processed |-> 0, failed |-> <<>>]

\* the Task record of a task the worker has marked RUNNING
RunningRecord == [status |-> "running", progress |-> 0, message |-> ""]

\* an item raised or was skipped: it joins `failed`, the loop goes on
ItemFailed_Abort(job, name) ==
    [job EXCEPT !.idx = job.total, !.failed = Append(@, name)]

ItemFailed(job, name) ==
    [job EXCEPT !.idx = @ + 1, !.failed = Append(@, name)]

\* an item went through: processed += 1
ItemProcessed(job) ==
    [job EXCEPT !.idx = @ + 1, !.processed = @ + 1]

(***************************************************************************)
(* The worker calls _process_trash_task, lines 278-290: the trash root is  *)
(* made, the counters start at zero.                                       *)
(***************************************************************************)
TrashTaskStart(req) ==
    /\ tk = NoJob
    /\ nextTrashId
         + Cardinality(UNION {Subtree(files, req.dir \o <<req.names[i]>>) :
                                 i \in 1..Len(req.names)})
         <= MaxTrashIds + 1
    /\ tk' = NewJob("trash", req.user, req.dir, req.names, <<>>)
    /\ tres' = RunningRecord
    /\ snap' = Snapshot(NoOrigin)
    /\ files' = MakeDirs(files, TrashRoot)
    /\ UNCHANGED <<ledger, nextTrashId, tcur, probe, taskVars, authVars, pathVars, mountVars>>

(***************************************************************************)
(* TaskWorker._trash_single_file, lines 390-392, and the except clause of  *)
(* _process_trash_task, lines 304-310: a name without object raises        *)
(* NotFound, the name joins failed_files and the loop goes on.             *)
(***************************************************************************)
TrashItemMissing ==
    /\ tk # NoJob
    /\ tk.kind = "trash"
    /\ tcur = NoItem
    /\ tk.idx < tk.total
    /\ ~PathExists(files, tk.dir \o <<tk.names[tk.idx + 1]>>)
    /\ tk' = ItemFailed(tk, <<tk.names[tk.idx + 1]>>)
    /\ UNCHANGED <<files, ledger, nextTrashId, tcur, tres, snap, probe, taskVars, authVars,
                   pathVars, mountVars>>

(***************************************************************************)
(* TaskWorker._trash_single_file, lines 390-423: the source must exist;    *)
(* the entries are collected, the top-level name made unique, the records  *)
(* written.                                                                *)
(***************************************************************************)
TrashCreateRecords ==
    /\ tk # NoJob
    /\ tk.kind = "trash"
    /\ tcur = NoItem
    /\ tk.idx < tk.total
    /\ PathExists(files, tk.dir \o <<tk.names[tk.idx + 1]>>)
    /\ LET src_path == tk.dir \o <<tk.names[tk.idx + 1]>>
           entries == CollectAllEntries(files, src_path, tk.dir)
           top == entries[1].entry_name
           unique == GetUniqueEntryName(files, ledger, top)
           adjusted == IF unique # top
                       THEN AdjustEntryNames(entries, top, unique)
                       ELSE entries
       IN  /\ ledger' = CreateBatch(ledger, nextTrashId, tk.user, adjusted)
           /\ nextTrashId' = nextTrashId + Len(adjusted)
           /\ tcur' = [src |-> src_path, unique |-> unique,
                       names |-> {adjusted[i].entry_name :
                                     i \in 1..Len(adjusted)}]
    /\ UNCHANGED <<files, tk, tres, snap, probe, taskVars, authVars, pathVars, mountVars>>

(***************************************************************************)
(* TaskWorker._trash_single_file, lines 425-439, and the loop body of      *)
(* _process_trash_task, lines 301-310: the tree is moved to the trash root *)
(* under the unique name and the item counts as processed; when the move   *)
(* raises, the records with the entry names of the item are deleted and    *)
(* the name joins failed_files.                                            *)
(***************************************************************************)
TrashMove ==
    /\ tk # NoJob
    /\ tk.kind = "trash"
    /\ tcur # NoItem
    /\ \/ /\ files' = MoveTree(MakeDirs(files, TrashRoot), tcur.src,
                               TrashRoot \o tcur.unique)
          /\ tk' = ItemProcessed(tk)
          /\ UNCHANGED ledger
       \/ /\ ledger' = DeleteByEntryNames(ledger, tcur.names)
          /\ tk' = ItemFailed(tk, <<tk.names[tk.idx + 1]>>)
          /\ UNCHANGED files
    /\ tcur' = NoItem
    /\ UNCHANGED <<nextTrashId, tres, snap, probe, taskVars, authVars, pathVars, mountVars>>

(***************************************************************************)
(* _process_task, lines 114-119, for a handler that raised before its      *)
(* loop: the task is FAILED with the message of the exception.             *)
(***************************************************************************)
RaisedRecord(error) == FailedRecord(RunningRecord, error)

\* the name a RESTORE request gives for a key: the entry name of the record
\* with that key, or, when there is none, the name m that no entry has
RequestedName(led, trash_id) ==
    IF \E r \in led : r.trash_id = trash_id
    THEN RecordOf(led, trash_id).entry_name
    ELSE <<"m">>

(***************************************************************************)
(* The worker calls _process_restore_task, lines 337-348: the records of   *)
(* the user with the requested entry names are looked up; NotFound unless  *)
(* there are as many records as names.                                     *)
(***************************************************************************)
RestoreNamesStart(user, names) ==
    /\ tk = NoJob
    /\ LET records == FindByUserAndPath(ledger, user, names)
           job == NewJob("restore", user, <<>>, names, records)
       IN  IF Len(records) # Len(names)
           THEN /\ tres' = RaisedRecord("Trash entry not found.")
                /\ snap' = NoSnap
                /\ UNCHANGED tk
           ELSE /\ tk' = job
                /\ tres' = RunningRecord
                /\ snap' = Snapshot(snap.origin)
    /\ UNCHANGED <<files, ledger, nextTrashId, tcur, probe, taskVars, authVars, pathVars,
                   mountVars>>

\* a request that names the entries of the given keys, one of them at
\* least in the ledger
RestoreTaskStart(user, trash_ids) ==
    /\ \E i \in 1..Len(trash_ids) : \E r \in ledger : r.trash_id = trash_ids[i]
    /\ RestoreNamesStart(user, [i \in 1..Len(trash_ids) |->
                                   RequestedName(ledger, trash_ids[i])])

\* the ledger after shutil.move raised in the restore loop, lines 370-377:
\* the record is not touched
AfterMoveRaised_Deleted(led, record) == DeleteRecord(led, record)

AfterMoveRaised(led, record) == led

(***************************************************************************)
(* TaskWorker._process_restore_task, lines 350-365, for one record: an     *)
(* object missing from the trash root or an original path that exists      *)
(* puts the entry on the failed list; else the parent of the original path *)
(* is made and the tree moved back.  A move that raises leaves the object  *)
(* in the trash root.                                                      *)
(***************************************************************************)
RestoreRecord ==
    /\ tk # NoJob
    /\ tk.kind = "restore"
    /\ tcur = NoItem
    /\ tk.idx < tk.total
    /\ LET record == RecordOf(ledger, tk.ids[tk.idx + 1])
           fs_path == TrashRoot \o record.entry_name
       IN  IF \/ ~PathExists(files, fs_path)
              \/ PathExists(files, record.original_path)
           THEN /\ tk' = ItemFailed(tk, record.entry_name)
                /\ UNCHANGED <<files, ledger, tcur>>
           ELSE \/ /\ files' = MoveTree(
                                  MakeDirs(files,
                                           DirName(record.original_path)),
                                  fs_path, record.original_path)
                   /\ tcur' = [src |-> fs_path, record |-> record]
                   /\ UNCHANGED <<tk, ledger>>
                \/ /\ files' = MakeDirs(files,
                                        DirName(record.original_path))
                   /\ ledger' = AfterMoveRaised(ledger, record)
                   /\ tk' = ItemFailed(tk, record.entry_name)
                   /\ UNCHANGED tcur
    /\ UNCHANGED <<nextTrashId, tres, snap, probe, taskVars, authVars, pathVars, mountVars>>

(***************************************************************************)
(* TaskWorker._process_restore_task, lines 366-369: after the move the     *)
(* record is deleted and the item counts as processed.                     *)
(***************************************************************************)
RestoreDeleteRecord ==
    /\ tk # NoJob
    /\ tk.kind = "restore"
    /\ tcur # NoItem
    /\ ledger' = DeleteRecord(ledger, tcur.record)
    /\ tk' = ItemProcessed(tk)
    /\ tcur' = NoItem
    /\ UNCHANGED <<files, nextTrashId, tres, snap, probe, taskVars, authVars, pathVars,
                   mountVars>>

(***************************************************************************)
(* The worker calls _process_delete_trash_task in empty-trash mode, lines  *)
(* 184-190 and 213-215: all records of the user.                           *)
(***************************************************************************)
EmptyTrashStart(user) ==
    /\ tk = NoJob
    /\ tk' = NewJob("empty", user, <<>>, <<>>, ListByUser(ledger, user))
    /\ tres' = RunningRecord
    /\ snap' = Snapshot(NoOrigin)
    /\ UNCHANGED <<files, ledger, nextTrashId, tcur, probe, taskVars, authVars, pathVars,
                   mountVars>>

\* the test of lines 198-200 on the records find_by_ids returned
IdsRejected(led, user_id, trash_ids, records) ==
    \/ Len(records) # Len(trash_ids)
    \/ \E i \in 1..Len(records) : RecordOf(led, records[i]).user_id # user_id

(***************************************************************************)
(* The worker calls _process_delete_trash_task in delete-by-id mode, lines *)
(* 191-201 and 213-215: NotFound unless every id has a record and every    *)
(* record belongs to the user of the task.                                 *)
(***************************************************************************)
DeleteIdsStart(user, trash_ids) ==
    /\ tk = NoJob
    /\ LET records == FindByIds(ledger, trash_ids)
           job == NewJob("ids", user, <<>>, <<>>, records)
       IN  IF IdsRejected(ledger, user, trash_ids, records)
           THEN /\ tres' = RaisedRecord("Trash entry not found.")
                /\ snap' = NoSnap
                /\ UNCHANGED tk
           ELSE /\ tk' = job
                /\ tres' = RunningRecord
                /\ snap' = Snapshot(NoOrigin)
    /\ UNCHANGED <<files, ledger, nextTrashId, tcur, probe, taskVars, authVars, pathVars,
                   mountVars>>

(***************************************************************************)
(* TaskWorker._process_delete_trash_task, lines 217-241, for one record:   *)
(* the object is removed from the trash root (a directory with all it      *)
(* holds) and the record deleted; a missing object raises                  *)
(* FileNotFoundError, the record stays and the entry joins failed.         *)
(***************************************************************************)
DeleteTrashRecord ==
    /\ tk # NoJob
    /\ tk.kind \in {"empty", "ids", "path"}
    /\ tk.idx < tk.total
    /\ LET record == RecordOf(ledger, tk.ids[tk.idx + 1])
           fs_path == TrashRoot \o record.entry_name
       IN  IF PathExists(files, fs_path)
           THEN /\ files' = RemoveTree(files, fs_path)
                /\ ledger' = DeleteRecord(ledger, record)
                /\ tk' = ItemProcessed(tk)
           ELSE /\ tk' = ItemFailed(tk, record.entry_name)
                /\ UNCHANGED <<files, ledger>>
    /\ UNCHANGED <<nextTrashId, tcur, tres, snap, probe, taskVars, authVars, pathVars,
                   mountVars>>

(***************************************************************************)
(* TaskWorker._handle_delete and the modes of _process_delete_trash_task.  *)
(* A DELETE task is [user, src_dir, dst_dirs, file_names]; the strings of  *)
(* dst_dirs after the sentinel of the delete-by-id mode are the keys.      *)
(***************************************************************************)
TRASH_DELETE_EMPTY == "__trash_empty__"
TRASH_DELETE_IDS == "__trash_ids__"
TRASH_DELETE_PATH == "__trash_path__"
\* task.src_dir is None
NoSrcDir == <<"None">>

\* the DELETE tasks of the model
DeleteIdLists == {ids \in IdLists : Len(ids) = 1 \/ ids = <<1, 2>>}
DeleteNameLists == {<<"a.txt">>, <<"d">>, <<"m", "a.txt">>}
DeleteTasks ==
    {[user |-> 1, src_dir |-> dirs[1], dst_dirs |-> dirs[2],
      file_names |-> names] :
        dirs \in {<<<<"b">>, <<>>>>, <<TrashRoot, <<"b">>>>,
                  <<NoSrcDir, <<>>>>},
        names \in DeleteNameLists}
    \cup {[user |-> u, src_dir |-> NoSrcDir,
           dst_dirs |-> <<TRASH_DELETE_EMPTY>>, file_names |-> <<>>] :
             u \in Users}
    \cup {[user |-> u, src_dir |-> NoSrcDir,
           dst_dirs |-> <<TRASH_DELETE_IDS>>
                           \o [i \in 1..Len(ids) |-> ToString(ids[i])],
           file_names |-> <<>>] : u \in Users, ids \in DeleteIdLists}
    \cup {[user |-> u, src_dir |-> NoSrcDir,
           dst_dirs |-> <<TRASH_DELETE_IDS, "x">>, file_names |-> <<>>] :
             u \in Users}
    \cup {[user |-> u, src_dir |-> <<"b">>,
           dst_dirs |-> <<TRASH_DELETE_PATH>>, file_names |-> names] :
             u \in Users, names \in DeleteNameLists \cup {<<>>}}

\* int(item): the number, or -1 for the ValueError
ParseInt(item) ==
    IF \E n \in TrashIds : ToString(n) = item
    THEN CHOOSE n \in TrashIds : ToString(n) = item
    ELSE -1

\* _handle_delete, the test of lines 154-158, and the same with one
\* sentinel only
IsTrashDelete_IdsOnly(dst_dirs) ==
    dst_dirs # <<>> /\ dst_dirs[1] = TRASH_DELETE_IDS

IsTrashDelete(dst_dirs) ==
    /\ dst_dirs # <<>>
    /\ dst_dirs[1] \in {TRASH_DELETE_EMPTY, TRASH_DELETE_IDS,
                        TRASH_DELETE_PATH}

\* a handler raised before its loop: nothing but the Task record changes
DeleteRaised(error) ==
    /\ tk = NoJob
    /\ tres' = RaisedRecord(error)
    /\ snap' = NoSnap
    /\ UNCHANGED <<tk, files, ledger, nextTrashId, tcur, probe, taskVars, authVars, pathVars,
                   mountVars>>

(***************************************************************************)
(* _process_delete_trash_task in delete-by-path mode, lines 202-209 and    *)
(* 213-215: BadRequest without names, NotFound unless the user has one     *)
(* record for each name.                                                   *)
(***************************************************************************)
DeletePathStart(user, dir_prefix, file_names) ==
    LET names == [i \in 1..Len(file_names) |-> <<file_names[i]>>]
        records == FindByUserAndPath(ledger, user, names)
    IN  IF file_names = <<>>
        THEN DeleteRaised("file_names are required for delete path mode.")
        ELSE IF Len(records) # Len(file_names)
        THEN DeleteRaised("Trash entry not found.")
        ELSE /\ tk = NoJob
             /\ tk' = NewJob("path", user, dir_prefix, names, records)
             /\ tres' = RunningRecord
             /\ snap' = Snapshot(NoOrigin)
             /\ UNCHANGED <<files, ledger, nextTrashId, tcur, probe, taskVars, authVars,
                            pathVars, mountVars>>

\* _process_delete_trash_task, lines 184-211: the mode of the sentinel
ProcessDeleteTrashTask(task) ==
    LET mode_marker == task.dst_dirs[1]
        trash_ids == [i \in 1..(Len(task.dst_dirs) - 1) |->
                         ParseInt(task.dst_dirs[i + 1])]
    IN  IF mode_marker = TRASH_DELETE_EMPTY
        THEN EmptyTrashStart(task.user)
        ELSE IF mode_marker = TRASH_DELETE_IDS
        THEN IF \E i \in 1..Len(trash_ids) : trash_ids[i] = -1
             THEN DeleteRaised("Invalid trash ids.")
             ELSE DeleteIdsStart(task.user, trash_ids)
        ELSE IF mode_marker = TRASH_DELETE_PATH
        THEN DeletePathStart(task.user, task.src_dir, task.file_names)
        ELSE DeleteRaised("Invalid trash delete mode.")

(***************************************************************************)
(* _handle_delete, lines 164-173, and the checks of LocalDriver.delete     *)
(* before its loop: BadRequest without a source dir, NotFound when the     *)
(* source dir is not there.                                                *)
(***************************************************************************)
DriverDeleteStart(task) ==
    IF task.src_dir = NoSrcDir
    THEN DeleteRaised("Source directory is required for DELETE task.")
    ELSE IF ~PathExists(files, task.src_dir)
    THEN DeleteRaised("Directory not found.")
    ELSE /\ tk = NoJob
         /\ tk' = [NewJob("delete", task.user, task.src_dir,
                          task.file_names, <<>>)
                      EXCEPT !.total = Len(task.file_names)]
         /\ tres' = RunningRecord
         /\ snap' = Snapshot(NoOrigin)
         /\ UNCHANGED <<files, ledger, nextTrashId, tcur, probe, taskVars, authVars,
                        pathVars, mountVars>>

\* TaskWorker._handle_delete
HandleDelete(task) ==
    IF IsTrashDelete(task.dst_dirs)
    THEN ProcessDeleteTrashTask(task)
    ELSE DriverDeleteStart(task)

(***************************************************************************)
(* LocalDriver.delete for one name: a name without object is skipped, an   *)
(* object is removed with all it holds.                                    *)
(***************************************************************************)
DriverDeleteItem ==
    /\ tk # NoJob
    /\ tk.kind = "delete"
    /\ tk.idx < tk.total
    /\ LET src_path == tk.dir \o <<tk.names[tk.idx + 1]>>
       IN  IF PathExists(files, src_path)
           THEN /\ files' = RemoveTree(files, src_path)
                /\ tk' = ItemProcessed(tk)
           ELSE /\ tk' = [tk EXCEPT !.idx = @ + 1]
                /\ UNCHANGED files
    /\ UNCHANGED <<ledger, nextTrashId, tcur, tres, snap, probe, taskVars, authVars, pathVars,
                   mountVars>>

\* LocalDriver.delete returns and _process_task marks the task COMPLETED
DriverDeleteEnd ==
    /\ tk # NoJob
    /\ tk.kind = "delete"
    /\ tk.idx = tk.total
    /\ tres' = CompletedRecord(tres)
    /\ tk' = NoJob
    /\ snap' = NoSnap
    /\ UNCHANGED <<files, ledger, nextTrashId, tcur, probe, taskVars, authVars, pathVars,
                   mountVars>>

(***************************************************************************)
(* TaskWorker._validate_trash_task_result: the handler raises only when    *)
(* nothing was processed of a task with items; failed items with some      *)
(* processed are logged as a warning.                                      *)
(***************************************************************************)
ValidateTrashTaskResult_NoRaise(processed, total_files, failed_files) == ""

ValidateTrashTaskResult(processed, total_files, failed_files) ==
    IF processed = 0 /\ total_files > 0
    THEN "All " \o ToString(total_files) \o " file(s) failed to trash"
    ELSE ""

\* history: the task that ends is a TRASH task of one name, a file, and has
\* moved it
OneFileTrashed ==
    /\ tk.kind = "trash"
    /\ tk.total = 1
    /\ tk.processed = 1
    /\ \E e \in snap.files : e.path = tk.dir \o <<tk.names[1]>> /\ ~e.dir

(***************************************************************************)
(* The loop of a trash handler is over: _validate_trash_task_result, then  *)
(* _process_task marks the task COMPLETED, or FAILED when the handler      *)
(* raised.                                                                 *)
(***************************************************************************)
TrashTaskEnd ==
    /\ tk # NoJob
    /\ tk.kind # "delete"
    /\ tcur = NoItem
    /\ tk.idx = tk.total
    /\ LET error == ValidateTrashTaskResult(tk.processed, tk.total, tk.failed)
       IN  tres' = IF error # "" THEN FailedRecord(tres, error)
                   ELSE CompletedRecord(tres)
    /\ tk' = NoJob
    /\ snap' = IF OneFileTrashed
               THEN [NoSnap EXCEPT !.origin = [files |-> snap.files,
                                               ledger |-> snap.ledger]]
               ELSE NoSnap
    /\ UNCHANGED <<files, ledger, nextTrashId, tcur, probe, taskVars, authVars, pathVars,
                   mountVars>>

(***************************************************************************)
(* The LocalDriver.  Here a path is a string, kept as the sequence of its  *)
(* characters, so that the string operations of the driver (lstrip, join,  *)
(* normpath, startswith) are computed as Python computes them.             *)
(***************************************************************************)
Sep == "/"
DotDot == <<".", ".">>
\* LocalDriver.root_path: os.path.abspath(config.root_path), here "/r"
RootPath == <<"/", "r">>
\* the directories and the names the requests of the model give:
\* "", "d", "..", "../rb" and "f", "g", "../rb/f"
LogicalDirs == {<<>>, <<"d">>, DotDot, <<".", ".", "/", "r", "b">>}
BatchNames == {<<"f">>, <<"g">>, <<".", ".", "/", "r", "b", "/", "f">>}

\* str.startswith
StartsWith(str, prefix) ==
    Len(prefix) <= Len(str) /\ SubSeq(str, 1, Len(prefix)) = prefix

\* str.lstrip(chars)
RECURSIVE LStrip(_, _)
LStrip(str, chars) ==
    IF str # <<>> /\ str[1] \in chars THEN LStrip(Tail(str), chars) ELSE str

\* str.rstrip(chars)
RECURSIVE RStrip(_, _)
RStrip(str, chars) ==
    IF str # <<>> /\ str[Len(str)] \in chars
    THEN RStrip(SubSeq(str, 1, Len(str) - 1), chars)
    ELSE str

\* str.split("/")
RECURSIVE SplitSep(_)
SplitSep(str) ==
    LET seps == {i \in 1..Len(str) : str[i] = Sep}
    IN  IF seps = {} THEN <<str>>
        ELSE LET i == CHOOSE j \in seps : \A k \in seps : j <= k
             IN  <<SubSeq(str, 1, i - 1)>>
                     \o SplitSep(SubSeq(str, i + 1, Len(str)))

\* "/".join(comps)
RECURSIVE JoinSep(_)
JoinSep(comps) ==
    IF comps = <<>> THEN <<>>
    ELSE IF Len(comps) = 1 THEN comps[1]
    ELSE comps[1] \o <<Sep>> \o JoinSep(Tail(comps))

\* os.path.join(a, b)
OsPathJoin(a, b) ==
    IF StartsWith(b, <<Sep>>) THEN b
    ELSE IF a = <<>> \/ a[Len(a)] = Sep THEN a \o b
    ELSE a \o <<Sep>> \o b

\* the loop of os.path.normpath over the components
RECURSIVE NormComps(_, _, _)
NormComps(comps, new_comps, initial_slashes) ==
    IF comps = <<>> THEN new_comps
    ELSE LET comp == Head(comps)
         IN  IF comp \in {<<>>, <<".">>}
             THEN NormComps(Tail(comps), new_comps, initial_slashes)
             ELSE IF \/ comp # DotDot
                     \/ (initial_slashes = 0 /\ new_comps = <<>>)
                     \/ (new_comps # <<>> /\ new_comps[Len(new_comps)] = DotDot)
             THEN NormComps(Tail(comps), Append(new_comps, comp),
                            initial_slashes)
             ELSE IF new_comps # <<>>
             THEN NormComps(Tail(comps),
                            SubSeq(new_comps, 1, Len(new_comps) - 1),
                            initial_slashes)
             ELSE NormComps(Tail(comps), new_comps, initial_slashes)

\* os.path.normpath
NormPath(str) ==
    IF str = <<>> THEN <<".">>
    ELSE LET initial_slashes ==
                 IF ~StartsWith(str, <<Sep>>) THEN 0
                 ELSE IF StartsWith(str, <<Sep, Sep>>)
                         /\ ~StartsWith(str, <<Sep, Sep, Sep>>) THEN 2
                 ELSE 1
             joined == JoinSep(NormComps(SplitSep(str), <<>>, initial_slashes))
             result == [i \in 1..initial_slashes |-> Sep] \o joined
         IN  IF result = <<>> THEN <<".">> ELSE result

\* LocalDriver._get_physical_path, the test that lets a path through
UnderRoot(physical_path, root) == StartsWith(physical_path, root)

(***************************************************************************)
(* LocalDriver._get_physical_path (base REGULAR): the path joined to the   *)
(* root and normalised, or BadRequest.                                     *)
(***************************************************************************)
GetPhysicalPath(logical_path) ==
    LET physical_path ==
            NormPath(OsPathJoin(RootPath, LStrip(logical_path, {"/", "\\"})))
    IN  IF ~UnderRoot(physical_path, RootPath)
        THEN [error |-> "BadRequest"]
        ELSE [error |-> "", path |-> physical_path]

\* os.path.exists / os.path.isdir; the object the host finds at a path is
\* the one at the normalised path (no symbolic links on the disk)
DiskExists(d, str) == \E e \in d : e.path = NormPath(str)
DiskIsDir(d, str) == \E e \in d : e.path = NormPath(str) /\ e.dir
\* the object at a path with everything below it
DiskTree(d, str) ==
    {e \in d : \/ e.path = NormPath(str)
               \/ StartsWith(e.path, NormPath(str) \o <<Sep>>)}

\* LocalDriver._validate_directory
ValidateDirectory(d, dir) ==
    IF ~DiskExists(d, dir) THEN "NotFound"
    ELSE IF ~DiskIsDir(d, dir) THEN "BadRequest"
    ELSE ""

(***************************************************************************)
(* LocalDriver.delete for one name of the batch: the directory is          *)
(* resolved and validated, the name joined to it; a name that does not     *)
(* exist is skipped, else the object is removed.                           *)
(***************************************************************************)
DriverDelete(dir, name) ==
    LET phys_dir == GetPhysicalPath(dir)
    IN  IF phys_dir.error # ""
        THEN /\ outcome' = phys_dir.error
             /\ touched' = {}
             /\ UNCHANGED disk
        ELSE IF ValidateDirectory(disk, phys_dir.path) # ""
        THEN /\ outcome' = ValidateDirectory(disk, phys_dir.path)
             /\ touched' = {}
             /\ UNCHANGED disk
        ELSE LET path == OsPathJoin(phys_dir.path, name)
             IN  IF ~DiskExists(disk, path)
                 THEN /\ outcome' = "skipped"
                      /\ touched' = {}
                      /\ UNCHANGED disk
                 ELSE /\ outcome' = "ok"
                      /\ touched' = {NormPath(path)}
                      /\ disk' = disk \ DiskTree(disk, path)

(***************************************************************************)
(* LocalDriver.copy for one name of the batch.                             *)
(***************************************************************************)
DriverCopy(src_dir, dst_dir, name) ==
    LET phys_src_dir == GetPhysicalPath(src_dir)
        phys_dst_dir == GetPhysicalPath(dst_dir)
    IN  IF phys_src_dir.error # "" \/ phys_dst_dir.error # ""
        THEN /\ outcome' = "BadRequest"
             /\ touched' = {}
             /\ UNCHANGED disk
        ELSE IF ValidateDirectory(disk, phys_src_dir.path) # ""
        THEN /\ outcome' = ValidateDirectory(disk, phys_src_dir.path)
             /\ touched' = {}
             /\ UNCHANGED disk
        ELSE IF ValidateDirectory(disk, phys_dst_dir.path) # ""
        THEN /\ outcome' = ValidateDirectory(disk, phys_dst_dir.path)
             /\ touched' = {}
             /\ UNCHANGED disk
        ELSE LET src_path == OsPathJoin(phys_src_dir.path, name)
                 dst_path == OsPathJoin(phys_dst_dir.path, name)
             IN  IF ~DiskExists(disk, src_path)
                 THEN /\ outcome' = "skipped"
                      /\ touched' = {}
                      /\ UNCHANGED disk
                 ELSE IF DiskExists(disk, dst_path)
                 THEN /\ outcome' = "Conflict"
                      /\ touched' = {}
                      /\ UNCHANGED disk
                 ELSE /\ outcome' = "ok"
                      /\ touched' = {NormPath(src_path), NormPath(dst_path)}
                      /\ disk' = disk \cup
                            {[path |-> NormPath(dst_path) \o
                                  SubSeq(e.path, Len(NormPath(src_path)) + 1,
                                         Len(e.path)),
                              dir |-> e.dir] : e \in DiskTree(disk, src_path)}

Delete(dir, name) ==
    /\ DriverDelete(dir, name)
    /\ UNCHANGED <<multistatus, listing, batchVars, taskVars, authVars, trashVars, mountVars>>

Copy(src_dir, dst_dir, name) ==
    /\ DriverCopy(src_dir, dst_dir, name)
    /\ UNCHANGED <<multistatus, listing, batchVars, taskVars, authVars, trashVars, mountVars>>

(***************************************************************************)
(* The WebDAV PROPFIND handler (apis/webdav.py) over the LocalDriver of    *)
(* the root mount.  The path is the part of the URL after /webdav/.        *)
(***************************************************************************)
\* the paths and the Depth headers of the requests: "", "d", "f", "d/f",
\* "d/" and "n", which is never there
PropfindPaths == {<<>>, <<"d">>, <<"f">>, <<"d", "/", "f">>, <<"d", "/">>,
                  <<"n">>}
Depths == {"0", "1", "infinity"}
\* the directories and names of the requests that change the disk
DavDirs == {<<>>, <<"d">>}
DavNames == {<<"f">>, <<"g">>}
NoMultistatus == [status |-> 0]

\* the code points of the characters of the model
Ord(char) ==
    CASE char = "." -> 46
      [] char = "/" -> 47
      [] char = "b" -> 98
      [] char = "d" -> 100
      [] char = "f" -> 102
      [] char = "g" -> 103
      [] char = "n" -> 110
      [] char = "r" -> 114

\* str < str of Python
RECURSIVE StrLess(_, _)
StrLess(a, b) ==
    IF b = <<>> THEN FALSE
    ELSE IF a = <<>> THEN TRUE
    ELSE IF a[1] # b[1] THEN Ord(a[1]) < Ord(b[1])
    ELSE StrLess(Tail(a), Tail(b))

\* os.path.basename
OsPathBaseName(str) ==
    LET comps == SplitSep(str) IN comps[Len(comps)]

\* os.scandir: the objects right below the directory
ScanDir_Walk(d, physical_path) ==
    {e \in d : StartsWith(e.path, physical_path \o <<Sep>>)}

ScanDir(d, physical_path) ==
    {e \in d : /\ StartsWith(e.path, physical_path \o <<Sep>>)
               /\ Len(SplitSep(e.path)) = Len(SplitSep(physical_path)) + 1}

\* list.sort(key=name) of files with different names
RECURSIVE SortByName(_)
SortByName(fileset) ==
    IF fileset = {} THEN <<>>
    ELSE LET first == CHOOSE f \in fileset :
                          \A g \in fileset \ {f} : StrLess(g.name, f.name) = FALSE
         IN  <<first>> \o SortByName(fileset \ {first})

\* LocalDriver._sort_files for sort_by NAME, sort_order ASC, dir_first
SortFiles(fileset) ==
    LET by_name == SortByName(fileset)
    IN  SelectSeq(by_name, LAMBDA f : f.dir)
            \o SelectSeq(by_name, LAMBDA f : ~f.dir)

\* LocalDriver.info
Info(d, path) ==
    LET phys == GetPhysicalPath(path)
    IN  IF phys.error # "" THEN [error |-> phys.error]
        ELSE IF ~DiskExists(d, phys.path) THEN [error |-> "NotFound"]
        ELSE [error |-> "",
              file |-> [name |-> OsPathBaseName(phys.path), path |-> path,
                        dir |-> DiskIsDir(d, phys.path)]]

\* LocalDriver.list_dir
ListDir(d, path) ==
    LET phys == GetPhysicalPath(path)
    IN  IF phys.error # "" THEN [error |-> phys.error]
        ELSE IF ValidateDirectory(d, phys.path) # ""
        THEN [error |-> ValidateDirectory(d, phys.path)]
        ELSE [error |-> "",
              files |-> SortFiles(
                  {[name |-> OsPathBaseName(e.path),
                    path |-> OsPathJoin(path, OsPathBaseName(e.path)),
                    dir |-> e.dir] : e \in ScanDir(d, phys.path)})]

(***************************************************************************)
(* webdav_propfind: 404 when info raises NotFound, any other error of info *)
(* leaves the handler; one response for the target, and for a directory    *)
(* with a Depth other than "0" one for each file list_dir returns, none    *)
(* when list_dir raises.                                                   *)
(***************************************************************************)
PropfindResult(d, path, depth) ==
    LET real_path == IF path # <<>> THEN path ELSE <<".">>
        current_file == Info(d, real_path)
        children == ListDir(d, real_path)
    IN  IF current_file.error = "NotFound"
        THEN [status |-> 404, responses |-> <<>>]
        ELSE IF current_file.error # ""
        THEN [status |-> 400, responses |-> <<>>]
        ELSE [status |-> 207,
              responses |->
                  <<current_file.file>> \o
                      (IF current_file.file.dir /\ depth # "0"
                          /\ children.error = ""
                       THEN children.files ELSE <<>>)]

Propfind(path, depth) ==
    /\ LET result == PropfindResult(disk, path, depth)
       IN  multistatus' = [path |-> path, depth |-> depth,
                           status |-> result.status,
                           responses |-> result.responses]
    /\ UNCHANGED <<disk, outcome, touched, listing, batchVars, taskVars, authVars,
                   trashVars, mountVars>>

(***************************************************************************)
(* The batches of the drivers over a name list.  A batch is modelled name  *)
(* by name: both drivers await between two names (progress callback,       *)
(* asyncio.sleep(0)).  The LocalDriver works on the disk above; the        *)
(* S3Driver on a bucket of objects [key, data], a key being the sequence   *)
(* of the segments of the object's name.                                   *)
(***************************************************************************)
\* the directories and names of the batch requests: the root "/" and "/d"
\* of the local storage, no directory "n"; "x" and "y" in the bucket; no
\* object is named "m"
LocalBatchDirs == {<<>>, <<"d">>, <<"n">>}
S3BatchDirs == {<<"x">>, <<"y">>}
DriverNames == {"f", "g", "m"}
DriverNameLists == NameLists(DriverNames)
BatchOps == {"copy", "move", "delete"}
NoBatch == [driver |-> "none"]
NoBatchResult == [error |-> "none", done |-> 0]
\* S3Driver.root_prefix: the normalised prefix of the storage config, "p/"
RootPrefix == <<"p">>

\* the tree at src_path, at dst_path
Replanted(d, src_path, dst_path) ==
    {[path |-> NormPath(dst_path) \o
                  SubSeq(e.path, Len(NormPath(src_path)) + 1, Len(e.path)),
      dir |-> e.dir] : e \in DiskTree(d, src_path)}

(***************************************************************************)
(* The loop bodies of LocalDriver.copy, move and delete for one name: a    *)
(* name without object is skipped (continue); copy and move raise Conflict *)
(* when there is an object at the destination.                             *)
(***************************************************************************)
LocalItem(op, d, phys_src_dir, phys_dst_dir, name) ==
    LET src_path == OsPathJoin(phys_src_dir, name)
        dst_path == OsPathJoin(phys_dst_dir, name)
    IN  IF ~DiskExists(d, src_path)
        THEN [error |-> "", disk |-> d]
        ELSE IF op = "delete"
        THEN [error |-> "", disk |-> d \ DiskTree(d, src_path)]
        ELSE IF DiskExists(d, dst_path)
        THEN [error |-> "Conflict", disk |-> d]
        ELSE IF op = "copy"
        THEN [error |-> "", disk |-> d \cup Replanted(d, src_path, dst_path)]
        ELSE [error |-> "",
              disk |-> (d \ DiskTree(d, src_path))
                          \cup Replanted(d, src_path, dst_path)]

(***************************************************************************)
(* LocalDriver.copy / move / delete before the loop: the directories are   *)
(* resolved and validated (delete has no destination).                     *)
(***************************************************************************)
LocalBatchStart(op, src_dir, dst_dir, names) ==
    /\ batch = NoBatch
    /\ LET phys_src_dir == GetPhysicalPath(src_dir)
           phys_dst_dir == IF op = "delete" THEN phys_src_dir
                           ELSE GetPhysicalPath(dst_dir)
           error ==
               IF phys_src_dir.error # "" THEN phys_src_dir.error
               ELSE IF phys_dst_dir.error # "" THEN phys_dst_dir.error
               ELSE IF ValidateDirectory(disk, phys_src_dir.path) # ""
               THEN ValidateDirectory(disk, phys_src_dir.path)
               ELSE ValidateDirectory(disk, phys_dst_dir.path)
       IN  IF error # ""
           THEN /\ bres' = [error |-> error, done |-> 0]
                /\ UNCHANGED batch
           ELSE /\ batch' = [driver |-> "local", op |-> op, phase |-> op,
                             src |-> phys_src_dir.path,
                             dst |-> phys_dst_dir.path,
                             names |-> names, idx |-> 0]
                /\ bres' = NoBatchResult
    /\ UNCHANGED <<multistatus, listing, disk, outcome, touched, bucket, renamed, taskVars, authVars,
                   trashVars, mountVars>>

\* one name of the loop; an exception ends the batch with the names before
\* gone through
LocalBatchItem ==
    /\ batch # NoBatch
    /\ batch.driver = "local"
    /\ batch.idx < Len(batch.names)
    /\ LET item == LocalItem(batch.op, disk, batch.src, batch.dst,
                             <<batch.names[batch.idx + 1]>>)
       IN  /\ disk' = item.disk
           /\ IF item.error # ""
              THEN /\ batch' = NoBatch
                   /\ bres' = [error |-> item.error, done |-> batch.idx]
              ELSE /\ batch' = [batch EXCEPT !.idx = @ + 1]
                   /\ UNCHANGED bres
    /\ UNCHANGED <<multistatus, listing, outcome, touched, bucket, renamed, taskVars, authVars,
                   trashVars, mountVars>>

\* S3Driver._path_to_key (base REGULAR, mount "/"): the root prefix and the
\* path relative to the mount
PathToKey(logical_path) == RootPrefix \o logical_path
KeyExists(bkt, key) == \E o \in bkt : o.key = key

\* S3Driver._wrap_error
WrapError(code) ==
    IF code \in {"404", "NoSuchKey", "NotFound"} THEN "NotFound"
    ELSE IF code \in {"403", "AccessDenied"} THEN "BadRequest"
    ELSE IF code \in {"409", "BucketAlreadyOwnedByYou", "BucketAlreadyExists"}
    THEN "Conflict"
    ELSE "Internal"

S3CopyItem_Swallow(bkt, src_dir, dst_dir, name) ==
    LET src_key == PathToKey(src_dir \o <<name>>)
        dst_key == PathToKey(dst_dir \o <<name>>)
    IN  IF ~KeyExists(bkt, src_key) \/ src_key = dst_key
        THEN [error |-> "", bucket |-> bkt]
        ELSE [error |-> "",
              bucket |-> {o \in bkt : o.key # dst_key} \cup
                  {[key |-> dst_key, data |-> o.data] :
                      o \in {x \in bkt : x.key = src_key}}]

(***************************************************************************)
(* The loop body of S3Driver.copy for one name: client.copy answers 404    *)
(* for a source key without object and InvalidRequest for a copy of an     *)
(* object onto itself; else it writes the object at the destination key,   *)
(* over whatever is there.                                                 *)
(***************************************************************************)
S3CopyItem(bkt, src_dir, dst_dir, name) ==
    LET src_key == PathToKey(src_dir \o <<name>>)
        dst_key == PathToKey(dst_dir \o <<name>>)
    IN  IF ~KeyExists(bkt, src_key)
        THEN [error |-> WrapError("404"), bucket |-> bkt]
        ELSE IF src_key = dst_key
        THEN [error |-> WrapError("InvalidRequest"), bucket |-> bkt]
        ELSE [error |-> "",
              bucket |-> {o \in bkt : o.key # dst_key} \cup
                  {[key |-> dst_key, data |-> o.data] :
                      o \in {x \in bkt : x.key = src_key}}]

\* the loop body of S3Driver.delete: delete_object succeeds whether or not
\* the key has an object
S3DeleteItem(bkt, dir, name) ==
    [error |-> "",
     bucket |-> {o \in bkt : o.key # PathToKey(dir \o <<name>>)}]

\* S3Driver.copy / move / delete start their loop without a look at the
\* directories; move is copy of the whole list, then delete of it
S3BatchStart(op, src_dir, dst_dir, names) ==
    /\ batch = NoBatch
    /\ batch' = [driver |-> "s3", op |-> op,
                 phase |-> IF op = "move" THEN "copy" ELSE op,
                 src |-> src_dir,
                 dst |-> IF op = "delete" THEN src_dir ELSE dst_dir,
                 names |-> names, idx |-> 0]
    /\ bres' = NoBatchResult
    /\ UNCHANGED <<multistatus, listing, disk, outcome, touched, bucket, renamed, taskVars, authVars,
                   trashVars, mountVars>>

S3BatchItem ==
    /\ batch # NoBatch
    /\ batch.driver = "s3"
    /\ batch.idx < Len(batch.names)
    /\ LET name == batch.names[batch.idx + 1]
           item == IF batch.phase = "copy"
                   THEN S3CopyItem(bucket, batch.src, batch.dst, name)
                   ELSE S3DeleteItem(bucket, batch.src, name)
       IN  /\ bucket' = item.bucket
           /\ IF item.error # ""
              THEN /\ batch' = NoBatch
                   /\ bres' = [error |-> item.error, done |-> batch.idx]
              ELSE /\ batch' = [batch EXCEPT !.idx = @ + 1]
                   /\ UNCHANGED bres
    /\ UNCHANGED <<multistatus, listing, disk, outcome, touched, renamed, taskVars, authVars,
                   trashVars, mountVars>>

\* the loop is over: the method returns, or S3Driver.move goes on to delete
BatchReturn ==
    /\ batch # NoBatch
    /\ batch.idx = Len(batch.names)
    /\ IF batch.op = "move" /\ batch.phase = "copy"
       THEN /\ batch' = [batch EXCEPT !.phase = "delete", !.idx = 0]
            /\ UNCHANGED bres
       ELSE /\ batch' = NoBatch
            /\ bres' = [error |-> "", done |-> Len(batch.names)]
    /\ UNCHANGED <<multistatus, listing, disk, outcome, touched, bucket, renamed, taskVars, authVars,
                   trashVars, mountVars>>

(***************************************************************************)
(* rename of the two drivers.  The call is modelled whole; `renamed` keeps *)
(* the call and the error it raised ("" when it returned).                 *)
(***************************************************************************)
NoRename == [driver |-> "none"]
\* the paths of the rename requests: f, g, h, d, d/f and n/f on the local
\* storage (no directory n); x/f, x/g, x/h, y/f, y/g, y/h in the bucket
LocalRenamePaths ==
    {<<"f">>, <<"g">>, <<"h">>, <<"d">>, <<"d", "/", "f">>, <<"n", "/", "f">>}
S3RenamePaths == {<<dir, name>> : dir \in {"x", "y"}, name \in {"f", "g", "h"}}

\* os.path.dirname of an absolute path
OsPathDirName(str) ==
    LET seps == {i \in 1..Len(str) : str[i] = Sep}
        i == CHOOSE j \in seps : \A k \in seps : k <= j
        head == SubSeq(str, 1, i)
    IN  IF RStrip(head, {Sep}) = <<>> THEN head ELSE RStrip(head, {Sep})

(***************************************************************************)
(* LocalDriver.rename: NotFound without source or without the directory of *)
(* the destination, Conflict with an object at the destination; else       *)
(* shutil.move, which refuses to move a directory into itself.             *)
(***************************************************************************)
LocalRenameResult(d, src_path, dst_path) ==
    LET phys_src_path == GetPhysicalPath(src_path)
        phys_dst_path == GetPhysicalPath(dst_path)
    IN  IF phys_src_path.error # ""
        THEN [error |-> phys_src_path.error, disk |-> d]
        ELSE IF phys_dst_path.error # ""
        THEN [error |-> phys_dst_path.error, disk |-> d]
        ELSE IF ~DiskExists(d, phys_src_path.path)
        THEN [error |-> "NotFound", disk |-> d]
        ELSE IF ~DiskExists(d, OsPathDirName(phys_dst_path.path))
        THEN [error |-> "NotFound", disk |-> d]
        ELSE IF DiskExists(d, phys_dst_path.path)
        THEN [error |-> "Conflict", disk |-> d]
        ELSE IF StartsWith(phys_dst_path.path, phys_src_path.path \o <<Sep>>)
        THEN [error |-> "Internal", disk |-> d]
        ELSE [error |-> "",
              disk |-> (d \ DiskTree(d, phys_src_path.path))
                          \cup Replanted(d, phys_src_path.path,
                                         phys_dst_path.path)]

LocalRename(src_path, dst_path) ==
    /\ batch = NoBatch
    /\ LET result == LocalRenameResult(disk, src_path, dst_path)
       IN  /\ disk' = result.disk
           /\ renamed' = [driver |-> "local", src |-> src_path,
                          dst |-> dst_path, error |-> result.error]
    /\ UNCHANGED <<multistatus, listing, outcome, touched, bucket, batch, bres, taskVars, authVars,
                   trashVars, mountVars>>

(***************************************************************************)
(* S3Driver.rename: the name of the source is copied from the directory of *)
(* the source to the directory of the destination, then deleted from the   *)
(* directory of the source.                                                *)
(***************************************************************************)
S3RenameResult(bkt, src_path, dst_path) ==
    LET src_dir == DirName(src_path)
        dst_dir == DirName(dst_path)
        name == src_path[Len(src_path)]
        copied == S3CopyItem(bkt, src_dir, dst_dir, name)
    IN  IF copied.error # "" THEN copied
        ELSE S3DeleteItem(copied.bucket, src_dir, name)

S3Rename(src_path, dst_path) ==
    /\ batch = NoBatch
    /\ LET result == S3RenameResult(bucket, src_path, dst_path)
       IN  /\ bucket' = result.bucket
           /\ renamed' = [driver |-> "s3", src |-> src_path,
                          dst |-> dst_path, error |-> result.error]
    /\ UNCHANGED <<multistatus, listing, disk, outcome, touched, batch, bres, taskVars, authVars,
                   trashVars, mountVars>>

(***************************************************************************)
(* The mount resolver of the StorageService.  Mount paths and virtual      *)
(* paths are strings, kept as sequences of characters.                     *)
(***************************************************************************)
\* the rows of the storages table the admin handlers of the model create:
\* mount paths "/", "/s", "/s/", "/sb" and "/s/b"
Storages ==
    {[storage_id |-> 1, mount_path |-> <<"/">>],
     [storage_id |-> 2, mount_path |-> <<"/", "s">>],
     [storage_id |-> 3, mount_path |-> <<"/", "s", "/">>],
     [storage_id |-> 4, mount_path |-> <<"/", "s", "b">>],
     [storage_id |-> 5, mount_path |-> <<"/", "s", "/", "b">>]}
\* the virtual paths the requests of the model ask for
PathChars == {"/", "s", "b"}
VirtualPaths == UNION {[1..n -> PathChars] : n \in 0..MaxPathLen}
\* get_driver: the storage built when no mount matches
FallbackStorage == [storage_id |-> 0, mount_path |-> <<"/">>]
NoStorage == [storage_id |-> -1, mount_path |-> <<>>]
NoPath == <<"none">>

\* path.rstrip("/") if path != "/" else path
CleanPath(str) == IF str # <<Sep>> THEN RStrip(str, {Sep}) ELSE str

\* _match_storage, the test of one mount against the cleaned path
MountMatches_NoBoundary(clean_mount, clean_path) ==
    \/ clean_mount = <<Sep>>
    \/ clean_path = clean_mount
    \/ StartsWith(clean_path, clean_mount)

MountMatches(clean_mount, clean_path) ==
    \/ clean_mount = <<Sep>>
    \/ clean_path = clean_mount
    \/ StartsWith(clean_path, clean_mount \o <<Sep>>)

\* max(matches, key=lambda s: len(s.mount_path)): the first of the longest
MaxByMountPath(matches) ==
    LET i == CHOOSE k \in 1..Len(matches) :
                 /\ \A j \in 1..Len(matches) :
                       Len(matches[j].mount_path) <= Len(matches[k].mount_path)
                 /\ \A j \in 1..(k - 1) :
                       Len(matches[j].mount_path) < Len(matches[k].mount_path)
    IN  matches[i]

(***************************************************************************)
(* StorageService._match_storage: the matching storages in the order of    *)
(* the cache, and of them the one with the longest mount_path; NoStorage   *)
(* stands for None.                                                        *)
(***************************************************************************)
MatchStorage(mounts, path) ==
    LET rooted == IF ~StartsWith(path, <<Sep>>) THEN <<Sep>> \o path ELSE path
        clean_path == CleanPath(rooted)
        Hit(storage) == MountMatches(CleanPath(storage.mount_path), clean_path)
        matches == SelectSeq(mounts, Hit)
    IN  IF matches = <<>> THEN NoStorage ELSE MaxByMountPath(matches)

\* update_cache that keeps the new storage alone
UpdateCache_Alone(storage) ==
    /\ cache' = <<storage>>
    /\ UNCHANGED <<asked, resolved, adminVars, taskVars, authVars, trashVars, pathVars>>

\* StorageService.update_cache: self._cache[storage.mount_path] = storage;
\* a new key goes to the end of the dict, a known key keeps its place
UpdateCache(storage) ==
    /\ cache' = IF \E i \in 1..Len(cache) :
                       cache[i].mount_path = storage.mount_path
                THEN [i \in 1..Len(cache) |->
                         IF cache[i].mount_path = storage.mount_path
                         THEN storage ELSE cache[i]]
                ELSE Append(cache, storage)
    /\ UNCHANGED <<asked, resolved, adminVars, taskVars, authVars, trashVars, pathVars>>

\* StorageService.remove_from_cache
RemoveFromCache(mount_path) ==
    /\ \E i \in 1..Len(cache) : cache[i].mount_path = mount_path
    /\ cache' = SelectSeq(cache, LAMBDA st : st.mount_path # mount_path)
    /\ UNCHANGED <<asked, resolved, adminVars, taskVars, authVars, trashVars, pathVars>>

\* apis/files.py info: a request with a path comes in
InfoRequest(path) ==
    /\ asked = NoPath
    /\ asked' = path
    /\ UNCHANGED <<cache, resolved, adminVars, taskVars, authVars, trashVars, pathVars>>

(***************************************************************************)
(* StorageService.get_driver: the driver is built for the matched storage, *)
(* or for the fallback local storage when there is none.                   *)
(***************************************************************************)
GetDriver ==
    /\ asked # NoPath
    /\ resolved = NoStorage
    /\ resolved' = IF MatchStorage(cache, asked) = NoStorage
                   THEN FallbackStorage
                   ELSE MatchStorage(cache, asked)
    /\ UNCHANGED <<cache, asked, adminVars, taskVars, authVars, trashVars, pathVars>>

\* apis/files.py info: the driver has answered and the request is over
InfoReturn ==
    /\ resolved # NoStorage
    /\ asked' = NoPath
    /\ resolved' = NoStorage
    /\ UNCHANGED <<cache, adminVars, taskVars, authVars, trashVars, pathVars>>

(***************************************************************************)
(* The list handler of the files API (apis/files.py list_files): the       *)
(* driver of the mount that covers the path lists the directory.  The      *)
(* mounts of the model are the local mount "/", whose root is RootPath as  *)
(* the root of the fallback mount is, and the object store mount "/s"; the *)
(* paths asked for are covered by the local mount or by none.              *)
(***************************************************************************)
ListStorages == {st \in Storages : st.mount_path \in {<<"/">>, <<"/", "s">>}}
ListPaths == {<<"/">>, <<"/", "d">>, <<"/", "n">>}
NoListing == [status |-> 0]

\* Storage.type of the storages of the model
StorageTypeOf(storage) ==
    IF storage.mount_path = <<"/", "s">> THEN "s3" ELSE "local"

ListFiles(path) ==
    /\ LET storage == IF MatchStorage(cache, path) = NoStorage
                      THEN FallbackStorage
                      ELSE MatchStorage(cache, path)
           listed == ListDir(disk, path)
       IN  /\ StorageTypeOf(storage) = "local"
           /\ listing' = IF listed.error # ""
                         THEN [path |-> path, status |-> listed.error,
                               items |-> <<>>]
                         ELSE [path |-> path, status |-> "ok",
                               items |-> listed.files]
    /\ UNCHANGED <<disk, outcome, touched, multistatus, batchVars, taskVars, authVars,
                   trashVars, mountVars>>

(***************************************************************************)
(* The trash root on the disk: TaskWorker._ensure_inside_trash and the     *)
(* loop bodies of _process_delete_trash_task and _process_restore_task for *)
(* one Trash Entry, given by its entry_name and original_path.  Paths are  *)
(* strings, kept as sequences of characters.                               *)
(***************************************************************************)
\* storage_service.get_trash_root: "/r/t"
EscapeTrashRoot == <<"/", "r", "/", "t">>
\* the disk: the trash root with f and the directory d with f in it;
\* outside of it "/r/g" and the directory "/r/tb" with f
EscapeDisk ==
    {[path |-> <<"/">>, dir |-> TRUE],
     [path |-> <<"/", "r">>, dir |-> TRUE],
     [path |-> <<"/", "r", "/", "g">>, dir |-> FALSE],
     [path |-> EscapeTrashRoot, dir |-> TRUE],
     [path |-> EscapeTrashRoot \o <<"/", "f">>, dir |-> FALSE],
     [path |-> EscapeTrashRoot \o <<"/", "d">>, dir |-> TRUE],
     [path |-> EscapeTrashRoot \o <<"/", "d", "/", "f">>, dir |-> FALSE],
     [path |-> <<"/", "r", "/", "t", "b">>, dir |-> TRUE],
     [path |-> <<"/", "r", "/", "t", "b", "/", "f">>, dir |-> FALSE]}
\* the entry names of the records: f, d, d/f, n, ./f, d/../f, ../t/f, which
\* stay inside; ../g, ../tb, ../tb/f, d/../../g, /r/g, ../../r/g, which do
\* not; and "", ".", d/.., which give the trash root itself
EscapeNames ==
    {<<"f">>, <<"d">>, <<"d", "/", "f">>, <<"n">>, <<".", "/", "f">>,
     <<"d", "/", ".", ".", "/", "f">>,
     <<".", ".", "/", "t", "/", "f">>,
     <<".", ".", "/", "g">>, <<".", ".", "/", "t", "b">>,
     <<".", ".", "/", "t", "b", "/", "f">>,
     <<"d", "/", ".", ".", "/", ".", ".", "/", "g">>,
     <<"/", "r", "/", "g">>,
     <<".", ".", "/", ".", ".", "/", "r", "/", "g">>,
     <<>>, <<".">>, <<"d", "/", ".", ".">>}
\* record.original_path: /r/h, /r/g (which exists) and /r/n/h
EscapeOriginalPaths ==
    {<<"/", "r", "/", "h">>, <<"/", "r", "/", "g">>,
     <<"/", "r", "/", "n", "/", "h">>}

\* os.path.commonpath of two absolute paths: the components that are not
\* empty and not ".", as far as they are the same
RECURSIVE CommonComps(_, _)
CommonComps(a, b) ==
    IF a = <<>> \/ b = <<>> \/ Head(a) # Head(b) THEN <<>>
    ELSE <<Head(a)>> \o CommonComps(Tail(a), Tail(b))

CommonPath_CharPrefix(p, q) == IF StartsWith(q, p) THEN p ELSE <<Sep>>

CommonPath(p, q) ==
    LET Named(comp) == comp \notin {<<>>, <<".">>}
    IN  <<Sep>> \o JoinSep(CommonComps(SelectSeq(SplitSep(p), Named),
                                       SelectSeq(SplitSep(q), Named)))

\* TaskWorker._ensure_inside_trash
EnsureInsideTrash(trash_root, entry_name) ==
    LET normalized_root == NormPath(trash_root)
        candidate == NormPath(OsPathJoin(normalized_root, entry_name))
    IN  IF CommonPath(normalized_root, candidate) # normalized_root
        THEN [error |-> "BadRequest"]
        ELSE [error |-> "", path |-> candidate]

\* os.makedirs(dir, exist_ok=True)
DiskMakeDirs(d, dir) ==
    d \cup {[path |-> SubSeq(dir, 1, i), dir |-> TRUE] :
               i \in {k \in 2..Len(dir) :
                         /\ k = Len(dir) \/ dir[k + 1] = Sep
                         /\ ~DiskExists(d, SubSeq(dir, 1, k))}}

(***************************************************************************)
(* _process_delete_trash_task, lines 213-226, for one record: BadRequest   *)
(* leaves the loop and fails the task; else the directory tree or the file *)
(* at the path is removed, and a missing one counts as failed.             *)
(***************************************************************************)
TrashDeleteEntry(entry_name) ==
    /\ LET fs_path == EnsureInsideTrash(EscapeTrashRoot, entry_name)
       IN  IF fs_path.error # ""
           THEN /\ outcome' = fs_path.error
                /\ touched' = {}
                /\ UNCHANGED disk
           ELSE IF ~DiskExists(disk, fs_path.path)
           THEN /\ outcome' = "failed"
                /\ touched' = {}
                /\ UNCHANGED disk
           ELSE /\ outcome' = "ok"
                /\ touched' = {fs_path.path}
                /\ disk' = disk \ DiskTree(disk, fs_path.path)
    /\ UNCHANGED <<multistatus, listing, batchVars, taskVars, authVars,
                   trashVars, mountVars>>

(***************************************************************************)
(* _process_restore_task, lines 350-366, for one record: BadRequest leaves *)
(* the loop and fails the task; a missing object and an existing original  *)
(* path count as failed; else the parent is made and the object moved;     *)
(* shutil.move refuses to move a directory into itself.                    *)
(***************************************************************************)
RestoreEntry(entry_name, original_path) ==
    /\ LET fs_path == EnsureInsideTrash(EscapeTrashRoot, entry_name)
       IN  IF fs_path.error # ""
           THEN /\ outcome' = fs_path.error
                /\ touched' = {}
                /\ UNCHANGED disk
           ELSE IF \/ ~DiskExists(disk, fs_path.path)
                   \/ DiskExists(disk, original_path)
           THEN /\ outcome' = "failed"
                /\ touched' = {}
                /\ UNCHANGED disk
           ELSE LET made == DiskMakeDirs(disk, OsPathDirName(original_path))
                IN  IF StartsWith(original_path, fs_path.path \o <<Sep>>)
                    THEN /\ outcome' = "failed"
                         /\ touched' = {}
                         /\ disk' = made
                    ELSE /\ outcome' = "ok"
                         /\ touched' = {fs_path.path}
                         /\ disk' = (made \ DiskTree(made, fs_path.path))
                                       \cup Replanted(made, fs_path.path,
                                                      original_path)
    /\ UNCHANGED <<multistatus, listing, batchVars, taskVars, authVars,
                   trashVars, mountVars>>

(***************************************************************************)
(* The AuthService: the tokens it issues and the two checks of a presented *)
(* token, get_user_from_token and refresh.  Time is counted in units; a    *)
(* JWT is kept as its claims and the key it was signed with.  The tokens   *)
(* table has the attribute expires_at the service reads and writes.        *)
(***************************************************************************)
\* settings.ACCESS_TOKEN_EXPIRE_MINUTES and REFRESH_TOKEN_EXPIRE_DAYS, in
\* units of time
AccessLife == 1
RefreshLife == 2
AuthUsers == {1, 2}
SecretKey == "secret"
NoAuth == [fn |-> "none"]
TokenIds == 1..MaxTokens
\* the tokens a client may present: signed with the key of the service or
\* with another, for a user of the table or for user 3, who is in no table
TokenClaims ==
    [token_id : TokenIds, user_id : AuthUsers \cup {3},
     expires_at : 1..(MaxTime + RefreshLife)]
PresentedTokens ==
    [key : {SecretKey}, claims : TokenClaims] \cup
    [key : {"other"},
     claims : {c \in TokenClaims : c.token_id = 1 /\ c.user_id = 1}]

\* AuthService._encode_token: the claims are the dumped Payload, token_id,
\* user_id and expires_at; there is no registered claim "exp"
EncodeToken(payload) ==
    [key |-> SecretKey,
     claims |-> [token_id |-> payload.token_id, user_id |-> payload.user_id,
                 expires_at |-> payload.expires_at]]

\* AuthService._decode_token: jwt.decode verifies the signature and tests
\* the claim "exp" when the token has one
DecodeToken(token, time) ==
    IF token.key # SecretKey
    THEN [error |-> "Could not validate credentials."]
    ELSE IF "exp" \in DOMAIN token.claims /\ token.claims["exp"] <= time
    THEN [error |-> "Token has expired."]
    ELSE [error |-> "",
          payload |-> [token_id |-> token.claims.token_id,
                       user_id |-> token.claims.user_id,
                       expires_at |-> token.claims.expires_at]]

\* the test of the stored token against the payload, without the type
TokenMatches_AnyType(token_entity, type, payload) ==
    /\ token_entity.user_id = payload.user_id
    /\ token_entity.expires_at = payload.expires_at

\* the test of the stored token against the payload (lines 95-100, 139-144)
TokenMatches(token_entity, type, payload) ==
    /\ token_entity.type = type
    /\ token_entity.user_id = payload.user_id
    /\ token_entity.expires_at = payload.expires_at

\* the checks get_user_from_token and refresh share: the error raised for
\* the token, "" when it is accepted
CheckToken(table, token, type, time) ==
    LET decoded == DecodeToken(token, time)
        entities == {r \in table : r.token_id = decoded.payload.token_id}
    IN  IF decoded.error # "" THEN decoded.error
        ELSE IF decoded.payload.user_id \notin AuthUsers
        THEN "User not found."
        ELSE IF entities = {} THEN "Invalid " \o type \o " token."
        ELSE IF \E r \in entities : ~TokenMatches(r, type, decoded.payload)
        THEN "Invalid " \o type \o " token."
        ELSE ""

\* TokenRepository.create
CreateToken(table, token_id, type, user_id, expires_at) ==
    table \cup {[token_id |-> token_id, type |-> type, user_id |-> user_id,
                 expires_at |-> expires_at]}

(***************************************************************************)
(* AuthService.authenticate with a correct password: _generate_tokens      *)
(* stores an access and a refresh token and encodes both.                  *)
(***************************************************************************)
Authenticate(user_id) ==
    /\ authed = NoAuth
    /\ nextTokenId + 1 <= MaxTokens
    /\ tokens' = CreateToken(
                    CreateToken(tokens, nextTokenId, "access", user_id,
                                now + AccessLife),
                    nextTokenId + 1, "refresh", user_id, now + RefreshLife)
    /\ nextTokenId' = nextTokenId + 2
    /\ UNCHANGED <<now, authed, taskVars, trashVars, pathVars, mountVars>>

\* AuthService.get_user_from_token
GetUserFromToken(token) ==
    /\ authed = NoAuth
    /\ authed' = [fn |-> "access", token |-> token, at |-> now,
                  error |-> CheckToken(tokens, token, "access", now)]
    /\ UNCHANGED <<tokens, nextTokenId, now, taskVars, trashVars, pathVars,
                   mountVars>>

\* AuthService.refresh: an accepted token gets a new access token stored
Refresh(refresh_token) ==
    LET error == CheckToken(tokens, refresh_token, "refresh", now)
    IN  /\ authed = NoAuth
        /\ error = "" => nextTokenId <= MaxTokens
        /\ authed' = [fn |-> "refresh", token |-> refresh_token, at |-> now,
                      error |-> error]
        /\ IF error = ""
           THEN /\ tokens' = CreateToken(tokens, nextTokenId, "access",
                                         refresh_token.claims.user_id,
                                         now + AccessLife)
                /\ nextTokenId' = nextTokenId + 1
           ELSE UNCHANGED <<tokens, nextTokenId>>
        /\ UNCHANGED <<now, taskVars, trashVars, pathVars, mountVars>>

\* the handler of the call answers: the user or the new access token, or
\* the error
AuthReturn ==
    /\ authed # NoAuth
    /\ authed' = NoAuth
    /\ UNCHANGED <<tokens, nextTokenId, now, taskVars, trashVars, pathVars,
                   mountVars>>

\* time passes
Tick ==
    /\ authed = NoAuth
    /\ now < MaxTime
    /\ now' = now + 1
    /\ UNCHANGED <<tokens, nextTokenId, authed, taskVars, trashVars, pathVars,
                   mountVars>>

(***************************************************************************)
(* The sorting of list and search results: LocalDriver._sort_files and     *)
(* S3Driver._sort_files (the same code), TrashRepository._apply_sorting    *)
(* and _sort_entries of apis/trash.py.  Each sorts by the requested key    *)
(* and, when dir_first is set, once more by a key that is smaller for a    *)
(* directory.  list.sort and sorted are stable, also with reverse=True:    *)
(* elements with equal keys stay in the order they had.                    *)
(***************************************************************************)
\* datetime.min, and the optional timestamps of a trash item: <<>> is None
DatetimeMin == 0

\* the files the sorted lists are made of: two sizes, two creation times,
\* directories and files
SortedFiles ==
    {[name |-> <<"b">>, size |-> 1, created_at |-> <<2>>, dir |-> TRUE],
     [name |-> <<"d">>, size |-> 1, created_at |-> <<1>>, dir |-> FALSE],
     [name |-> <<"f">>, size |-> 2, created_at |-> <<1>>, dir |-> TRUE],
     [name |-> <<"g">>, size |-> 2, created_at |-> <<2>>, dir |-> FALSE]}
\* a trash item whose file is missing: _get_fs_metadata gives size 0, type
\* "file" and no timestamps
MissingItem ==
    [name |-> <<"n">>, size |-> 0, created_at |-> <<>>, dir |-> FALSE]

SortInputs(universe) ==
    {s \in UNION {[1..n -> universe] : n \in 0..MaxListLen} :
        \A i, j \in 1..Len(s) : s[i] = s[j] => i = j}

SortKeys == {"name", "size", "created"}
SortArgs == [sort_by : SortKeys, sort_order : {"asc", "desc"},
             dir_first : BOOLEAN]

\* the key functions: sort_key[args.sort_by] of the drivers, _get_sort_key
\* of the trash repository (a missing timestamp counts as datetime.min),
\* and the keys of the second pass (False < True, 0 < 1)
KeyOf(file, key) ==
    CASE key = "name" -> file.name
      [] key = "size" -> file.size
      [] key = "created" -> file.created_at[1]
      [] key = "created or datetime.min" ->
            IF file.created_at = <<>> THEN DatetimeMin ELSE file.created_at[1]
      [] key = "type == file" -> IF file.dir THEN 0 ELSE 1
      [] key = "0 if directory else 1" -> IF file.dir THEN 0 ELSE 1

\* key(x) < key(y) of Python: strings by code point, numbers by value
KeyLess(x, y, key) ==
    IF key = "name"
    THEN StrLess(KeyOf(x, key), KeyOf(y, key))
    ELSE KeyOf(x, key) < KeyOf(y, key)

\* x has to come before y
ComesBefore(x, y, key, reverse) ==
    IF reverse THEN KeyLess(y, x, key) ELSE KeyLess(x, y, key)

\* where a stable sort puts the next element x of the list among the
\* elements sorted so far: before the first one it has to come before,
\* after every element with an equal key
InsertIndex_BeforeEqual(sorted, x, key, reverse) ==
    LET later == {i \in 1..Len(sorted) : ~ComesBefore(sorted[i], x, key, reverse)}
    IN  IF later = {} THEN Len(sorted) + 1
        ELSE CHOOSE i \in later : \A j \in later : i <= j

InsertIndex(sorted, x, key, reverse) ==
    LET later == {i \in 1..Len(sorted) : ComesBefore(x, sorted[i], key, reverse)}
    IN  IF later = {} THEN Len(sorted) + 1
        ELSE CHOOSE i \in later : \A j \in later : i <= j

\* list.sort(key=..., reverse=...) and sorted(...)
RECURSIVE ListSort(_, _, _)
ListSort(list, key, reverse) ==
    IF list = <<>> THEN <<>>
    ELSE LET sorted == ListSort(SubSeq(list, 1, Len(list) - 1), key, reverse)
             x == list[Len(list)]
             at == InsertIndex(sorted, x, key, reverse)
         IN  SubSeq(sorted, 1, at - 1) \o <<x>> \o SubSeq(sorted, at, Len(sorted))

\* LocalDriver._sort_files, S3Driver._sort_files
SortFileList(file_list, args) ==
    LET reverse == args.sort_order = "desc"
        sorted == ListSort(file_list, args.sort_by, reverse)
    IN  IF args.dir_first
        THEN ListSort(sorted, "type == file", FALSE)
        ELSE sorted

\* TrashRepository._apply_sorting
ApplySorting(items, query) ==
    LET reverse == query.sort_order = "desc"
        key == IF query.sort_by = "created" THEN "created or datetime.min"
               ELSE query.sort_by
        sorted_items == ListSort(items, key, reverse)
    IN  IF query.dir_first
        THEN ListSort(sorted_items, "0 if directory else 1", FALSE)
        ELSE sorted_items

\* list_dir / search of a driver, and TrashRepository.search: the files
\* found are sorted and returned
SortResponse(kind, found, args) ==
    /\ listing' = [kind |-> kind, found |-> found, args |-> args,
                   items |-> IF kind = "trash" THEN ApplySorting(found, args)
                             ELSE SortFileList(found, args)]
    /\ UNCHANGED <<disk, outcome, touched, multistatus, batchVars, taskVars, authVars,
                   trashVars, mountVars>>

(***************************************************************************)
(* The admin handlers of the storages (apis/admin/storage.py).  A handler  *)
(* is a coroutine: it gives way to the other handlers at each await of a   *)
(* repository call, and what a call did to the storages table is done      *)
(* before the handler goes on.  `rows` is the storages table, whose        *)
(* mount_path column is unique; `admin` holds, for each handler in flight, *)
(* its position and the Storage object it works on.                        *)
(***************************************************************************)
Handlers == 1..MaxHandlers
NoCall == [op |-> "none"]
\* the mount paths the admin requests give: "/" and "/s"
AdminMounts == {<<"/">>, <<"/", "s">>}
\* data.mount_path of an update that leaves the mount path alone
KeepMount == <<>>
StorageIds == 1..Cardinality(AdminMounts)

\* the key sqlite gives a new row: one more than the largest in use
NewStorageId(table) ==
    IF table = {} THEN 1
    ELSE (CHOOSE i \in {r.storage_id : r \in table} :
             \A r \in table : r.storage_id <= i) + 1

RowOf(table, storage_id) == CHOOSE r \in table : r.storage_id = storage_id
HasRow(table, storage_id) == \E r \in table : r.storage_id = storage_id
MountTaken(table, mount_path) == \E r \in table : r.mount_path = mount_path

\* self._cache[storage.mount_path] = storage
CachePut(c, storage) ==
    IF \E i \in 1..Len(c) : c[i].mount_path = storage.mount_path
    THEN [i \in 1..Len(c) |->
             IF c[i].mount_path = storage.mount_path THEN storage ELSE c[i]]
    ELSE Append(c, storage)

\* if mount_path in self._cache: del self._cache[mount_path]
CacheDel(c, mount_path) == SelectSeq(c, LAMBDA st : st.mount_path # mount_path)

adminFrame == <<asked, resolved, taskVars, authVars, trashVars, pathVars>>

(***************************************************************************)
(* create_storage, up to the commit of repo.create: an IntegrityError on   *)
(* the unique mount path becomes ConflictError and the handler is over.    *)
(***************************************************************************)
CreateStorageCommit(h, mount_path) ==
    /\ admin[h] = NoCall
    /\ IF MountTaken(rows, mount_path)
       THEN UNCHANGED <<rows, admin>>
       ELSE LET storage == [storage_id |-> NewStorageId(rows),
                            mount_path |-> mount_path]
            IN  /\ rows' = rows \cup {storage}
                /\ admin' = [admin EXCEPT ![h] =
                                [op |-> "create", pos |-> "committed",
                                 storage |-> storage,
                                 old_mount_path |-> mount_path]]
    /\ UNCHANGED <<cache, adminFrame>>

(***************************************************************************)
(* db.refresh(storage) of repo.create and repo.update: the object takes    *)
(* the values of the row with its key; without such a row the call raises  *)
(* and the handler is over.                                                *)
(***************************************************************************)
StorageRefresh(h) ==
    /\ admin[h] # NoCall
    /\ admin[h].pos = "committed"
    /\ admin[h].op \in {"create", "update"}
    /\ admin' = [admin EXCEPT ![h] =
                    IF HasRow(rows, admin[h].storage.storage_id)
                    THEN [@ EXCEPT !.pos = "refreshed",
                             !.storage = RowOf(rows, @.storage_id)]
                    ELSE NoCall]
    /\ UNCHANGED <<rows, cache, adminFrame>>

\* create_storage, line 49: storage_service.update_cache(created)
CreateStorageCache(h) ==
    /\ admin[h] # NoCall
    /\ admin[h].op = "create"
    /\ admin[h].pos = "refreshed"
    /\ cache' = CachePut(cache, admin[h].storage)
    /\ admin' = [admin EXCEPT ![h] = NoCall]
    /\ UNCHANGED <<rows, adminFrame>>

(***************************************************************************)
(* update_storage and delete_storage, repo.get_by_id: NotFound without a   *)
(* row, else the handler holds the Storage object; update_storage keeps    *)
(* old_mount_path and sets the new mount path on the object.               *)
(***************************************************************************)
StorageLoad(h, op, storage_id, mount_path) ==
    /\ admin[h] = NoCall
    /\ op = "delete" => mount_path = KeepMount
    /\ IF ~HasRow(rows, storage_id)
       THEN UNCHANGED admin
       ELSE LET storage == RowOf(rows, storage_id)
            IN  admin' = [admin EXCEPT ![h] =
                    [op |-> op, pos |-> "loaded",
                     storage |-> IF mount_path # KeepMount
                                 THEN [storage EXCEPT
                                          !.mount_path = mount_path]
                                 ELSE storage,
                     old_mount_path |-> storage.mount_path]]
    /\ UNCHANGED <<rows, cache, adminFrame>>

(***************************************************************************)
(* update_storage, the commit of repo.update: an object whose mount path   *)
(* was not changed writes nothing; else the row with its key gets the new  *)
(* mount path, and the commit raises (the handler is over) when there is   *)
(* no such row or another row has that mount path.                         *)
(***************************************************************************)
UpdateStorageCommit(h) ==
    /\ admin[h] # NoCall
    /\ admin[h].op = "update"
    /\ admin[h].pos = "loaded"
    /\ LET storage == admin[h].storage
       IN  IF storage.mount_path = admin[h].old_mount_path
           THEN /\ admin' = [admin EXCEPT ![h].pos = "committed"]
                /\ UNCHANGED rows
           ELSE IF \/ ~HasRow(rows, storage.storage_id)
                   \/ \E r \in rows : /\ r.mount_path = storage.mount_path
                                      /\ r.storage_id # storage.storage_id
           THEN /\ admin' = [admin EXCEPT ![h] = NoCall]
                /\ UNCHANGED rows
           ELSE /\ rows' = (rows \ {RowOf(rows, storage.storage_id)})
                              \cup {storage}
                /\ admin' = [admin EXCEPT ![h].pos = "committed"]
    /\ UNCHANGED <<cache, adminFrame>>

\* update_storage, lines 132-134: the old mount path is evicted when the
\* mount path has changed, and the updated storage is cached
UpdateStorageCache(h) ==
    /\ admin[h] # NoCall
    /\ admin[h].op = "update"
    /\ admin[h].pos = "refreshed"
    /\ cache' = CachePut(
                    IF admin[h].old_mount_path # admin[h].storage.mount_path
                    THEN CacheDel(cache, admin[h].old_mount_path)
                    ELSE cache,
                    admin[h].storage)
    /\ admin' = [admin EXCEPT ![h] = NoCall]
    /\ UNCHANGED <<rows, adminFrame>>

\* delete_storage, the commit of repo.delete: the row with the key of the
\* object is deleted
DeleteStorageCommit(h) ==
    /\ admin[h] # NoCall
    /\ admin[h].op = "delete"
    /\ admin[h].pos = "loaded"
    /\ rows' = {r \in rows : r.storage_id # admin[h].storage.storage_id}
    /\ admin' = [admin EXCEPT ![h].pos = "committed"]
    /\ UNCHANGED <<cache, adminFrame>>

\* delete_storage, line 151: remove_from_cache(storage.mount_path)
DeleteStorageCache(h) ==
    /\ admin[h] # NoCall
    /\ admin[h].op = "delete"
    /\ admin[h].pos = "committed"
    /\ cache' = CacheDel(cache, admin[h].storage.mount_path)
    /\ admin' = [admin EXCEPT ![h] = NoCall]
    /\ UNCHANGED <<rows, adminFrame>>

(***************************************************************************)
(* main.py lifespan, the startup of a process: a StorageService is built   *)
(* with an empty _cache and put on app.state; StorageService.initialize is *)
(* not called.  The storages table is the one the process before left      *)
(* behind, and the handlers that process had in flight are gone.           *)
(***************************************************************************)
LifespanStartup ==
    /\ cache' = <<>>
    /\ admin' = [h \in Handlers |-> NoCall]
    /\ UNCHANGED <<rows, adminFrame>>

(***************************************************************************)
(* The task specification: request handlers, the worker coroutine and the  *)
(* archive generator interleave at their await points.                     *)
(***************************************************************************)
\* the objects of the local storage when the service starts
InitFiles ==
    {[path |-> <<"a">>, dir |-> TRUE, data |-> 0],
     [path |-> <<"a", "a.txt">>, dir |-> FALSE, data |-> 1],
     [path |-> <<"a", "g">>, dir |-> FALSE, data |-> 2],
     [path |-> <<"a", "d">>, dir |-> TRUE, data |-> 0],
     [path |-> <<"a", "d", "f">>, dir |-> FALSE, data |-> 3],
     [path |-> <<"b">>, dir |-> TRUE, data |-> 0],
     [path |-> <<"b", "a.txt">>, dir |-> FALSE, data |-> 4]}

\* the state after construction, over a given content of the local storage
\* and of the trash table
\* the disk of the local storage: the root "/r" with f, g and the
\* directory d, and beside it the directory "/rb" with f
InitDisk ==
    {[path |-> <<"/">>, dir |-> TRUE],
     [path |-> <<"/", "r">>, dir |-> TRUE],
     [path |-> <<"/", "r", "/", "f">>, dir |-> FALSE],
     [path |-> <<"/", "r", "/", "g">>, dir |-> FALSE],
     [path |-> <<"/", "r", "/", "d">>, dir |-> TRUE],
     [path |-> <<"/", "r", "b">>, dir |-> TRUE],
     [path |-> <<"/", "r", "b", "/", "f">>, dir |-> FALSE]}

InitStore(fs, led, next_id, d) ==
    /\ db = [t \in TaskIds |-> NoTask]
    /\ nextId = 1
    /\ queue = <<>>
    /\ creating = {}
    /\ narchive = 0
    /\ ndelete = 0
    /\ committed = {}
    /\ createFailed = FALSE
    /\ wpc = "idle"
    /\ wcur = 0
    /\ widx = 0
    /\ wdone = 0
    /\ werr = ""
    /\ apc = "idle"
    /\ acur = 0
    /\ aidx = 0
    /\ enqueued = <<>>
    /\ started = <<>>
    /\ wlog = <<>>
    /\ wrunning = {}
    /\ running = TRUE
    /\ tokens = {}
    /\ nextTokenId = 1
    /\ now = 0
    /\ authed = NoAuth
    /\ files = fs
    /\ ledger = led
    /\ nextTrashId = next_id
    /\ tcur = NoItem
    /\ tk = NoJob
    /\ tres = NoResult
    /\ snap = NoSnap
    /\ probe = NoProbe
    /\ disk = d
    /\ outcome = ""
    /\ touched = {}
    /\ multistatus = NoMultistatus
    /\ listing = NoListing
    /\ bucket = {[key |-> <<"p", "x", "f">>, data |-> 1],
                 [key |-> <<"p", "x", "g">>, data |-> 2],
                 [key |-> <<"p", "y", "f">>, data |-> 3]}
    /\ batch = NoBatch
    /\ bres = NoBatchResult
    /\ renamed = NoRename
    /\ cache = <<>>
    /\ asked = NoPath
    /\ resolved = NoStorage
    /\ rows = {}
    /\ admin = [h \in Handlers |-> NoCall]

Init == InitStore(InitFiles, {}, 1, InitDisk)

\* apis/files.py copy takes any name list; apis/trash.py trash_files
\* rejects an empty one
RequestNames(type) == IF type = "trash" THEN {MaxNames} ELSE {0, MaxNames}

\* the request handlers that queue work, and the worker coroutine
WorkerNext ==
    \/ \E type \in RequestTypes :
         \E total \in RequestNames(type) : AddTaskCreate(type, total)
    \/ AddTaskCreateFails
    \/ \E t \in TaskIds : AddTaskEnqueue(t)
    \/ \E t \in TaskIds : DeleteTask(t)
    \/ WorkerDequeue
    \/ ProcessTaskLoad
    \/ WorkerLostRecord
    \/ ProcessTaskDispatch
    \/ DriverBatchItem
    \/ LedgerBatchItem
    \/ HandlerReturn
    \/ ProcessTaskComplete
    \/ ProcessTaskFail
    \/ WorkerTaskDone

SpecWorker == Init /\ [][WorkerNext]_vars

\* the same with the shutdown of the process
ShutdownNext ==
    \/ WorkerNext
    \/ LifespanShutdown

SpecShutdown == Init /\ [][ShutdownNext]_vars

\* the same with the download requests of the transfer API
Next ==
    \/ WorkerNext
    \/ CreateDownloadTask(MaxNames)
    \/ \E t \in TaskIds : ArchiveStart(t)
    \/ ArchiveFile
    \/ ArchiveFinish
    \/ ArchiveLostRecord

Spec == Init /\ [][Next]_vars

(***************************************************************************)
(* The trash specification: the items of TRASH, RESTORE and trash-delete   *)
(* tasks, which the one worker goes through one after the other.           *)
(***************************************************************************)
TrashNext ==
    \/ \E req \in TrashRequests : TrashTaskStart(req)
    \/ TrashItemMissing
    \/ TrashCreateRecords
    \/ TrashMove
    \/ \E u \in Users : \E id \in TrashIds : RestoreTaskStart(u, <<id>>)
    \/ RestoreRecord
    \/ RestoreDeleteRecord
    \/ \E u \in Users : EmptyTrashStart(u)
    \/ \E u \in Users : \E ids \in IdLists : DeleteIdsStart(u, ids)
    \/ DeleteTrashRecord
    \/ TrashTaskEnd

SpecTrash == Init /\ [][TrashNext]_vars

(***************************************************************************)
(* The delete specification: TRASH tasks fill the trash, DELETE tasks of   *)
(* every mode follow.                                                      *)
(***************************************************************************)
DeleteNext ==
    \/ \E req \in {r \in TrashRequests : Len(r.names) = 1} :
          TrashTaskStart(req)
    \/ TrashItemMissing
    \/ TrashCreateRecords
    \/ TrashMove
    \/ \E task \in DeleteTasks : HandleDelete(task)
    \/ DeleteTrashRecord
    \/ DriverDeleteItem
    \/ DriverDeleteEnd
    \/ TrashTaskEnd

SpecDelete == Init /\ [][DeleteNext]_vars

(***************************************************************************)
(* The batch specification: TRASH tasks alone, with longer lists of files. *)
(***************************************************************************)
TrashBatchNext ==
    \/ \E req \in BatchRequests : TrashTaskStart(req)
    \/ TrashItemMissing
    \/ TrashCreateRecords
    \/ TrashMove
    \/ TrashTaskEnd

SpecTrashBatch == Init /\ [][TrashBatchNext]_vars

(***************************************************************************)
(* The restore specification: TRASH tasks and RESTORE tasks whose requests *)
(* name one or two entries.                                                *)
(***************************************************************************)
RestoreNext ==
    \/ \E req \in TrashRequests : TrashTaskStart(req)
    \/ TrashItemMissing
    \/ TrashCreateRecords
    \/ TrashMove
    \/ \E u \in Users : \E ids \in IdLists : RestoreTaskStart(u, ids)
    \/ RestoreRecord
    \/ RestoreDeleteRecord
    \/ TrashTaskEnd

SpecRestore == Init /\ [][RestoreNext]_vars

(***************************************************************************)
(* The driver specification: single-name batches of the LocalDriver.       *)
(***************************************************************************)
PathNext ==
    \/ \E dir \in LogicalDirs : \E name \in BatchNames : Delete(dir, name)
    \/ \E src_dir \in LogicalDirs : \E dst_dir \in LogicalDirs :
          \E name \in BatchNames : Copy(src_dir, dst_dir, name)

SpecPath == Init /\ [][PathNext]_vars

(***************************************************************************)
(* The WebDAV specification: PROPFIND requests between requests that       *)
(* change the disk.                                                        *)
(***************************************************************************)
WebdavNext ==
    \/ \E dir \in DavDirs : \E name \in DavNames : Delete(dir, name)
    \/ \E src_dir \in DavDirs : \E dst_dir \in DavDirs :
          \E name \in DavNames : Copy(src_dir, dst_dir, name)
    \/ \E path \in PropfindPaths : \E depth \in Depths : Propfind(path, depth)

SpecWebdav == Init /\ [][WebdavNext]_vars

(***************************************************************************)
(* The list specification: list requests between changes of the mount      *)
(* cache and of the disk.                                                  *)
(***************************************************************************)
ListNext ==
    \/ \E storage \in ListStorages : UpdateCache(storage)
    \/ \E storage \in ListStorages : RemoveFromCache(storage.mount_path)
    \/ \E name \in DavNames : Delete(<<>>, name)
    \/ \E path \in ListPaths : ListFiles(path)

SpecList == Init /\ [][ListNext]_vars

(***************************************************************************)
(* The batch specifications: the batches of the LocalDriver, and those of  *)
(* the S3Driver, over name lists.                                          *)
(***************************************************************************)
LocalBatchNext ==
    \/ \E op \in BatchOps : \E src_dir \in LocalBatchDirs :
          \E dst_dir \in LocalBatchDirs : \E names \in DriverNameLists :
             LocalBatchStart(op, src_dir, dst_dir, names)
    \/ LocalBatchItem
    \/ BatchReturn

SpecLocalBatch == Init /\ [][LocalBatchNext]_vars

S3BatchNext ==
    \/ \E op \in BatchOps : \E src_dir \in S3BatchDirs :
          \E dst_dir \in S3BatchDirs : \E names \in DriverNameLists :
             S3BatchStart(op, src_dir, dst_dir, names)
    \/ S3BatchItem
    \/ BatchReturn

SpecS3Batch == Init /\ [][S3BatchNext]_vars

(***************************************************************************)
(* The rename specifications: rename calls of the LocalDriver, and of the  *)
(* S3Driver.                                                               *)
(***************************************************************************)
LocalRenameNext ==
    \E src_path \in LocalRenamePaths : \E dst_path \in LocalRenamePaths :
       LocalRename(src_path, dst_path)

SpecLocalRename == Init /\ [][LocalRenameNext]_vars

S3RenameNext ==
    \E src_path \in S3RenamePaths : \E dst_path \in S3RenamePaths :
       S3Rename(src_path, dst_path)

SpecS3Rename == Init /\ [][S3RenameNext]_vars

(***************************************************************************)
(* The move specification of the S3Driver: batch moves and rename calls.   *)
(***************************************************************************)
S3MoveNext ==
    \/ \E src_dir \in S3BatchDirs : \E dst_dir \in S3BatchDirs :
          \E names \in DriverNameLists :
             S3BatchStart("move", src_dir, dst_dir, names)
    \/ S3BatchItem
    \/ BatchReturn
    \/ \E src_path \in S3RenamePaths : \E dst_path \in S3RenamePaths :
          S3Rename(src_path, dst_path)

SpecS3Move == Init /\ [][S3MoveNext]_vars

(***************************************************************************)
(* The mount specification: the admin handlers change the cache, the       *)
(* requests resolve paths.                                                 *)
(***************************************************************************)
MountNext ==
    \/ \E storage \in Storages : UpdateCache(storage)
    \/ \E storage \in Storages : RemoveFromCache(storage.mount_path)
    \/ \E path \in VirtualPaths : InfoRequest(path)
    \/ GetDriver
    \/ InfoReturn

SpecMount == Init /\ [][MountNext]_vars

(***************************************************************************)
(* The enabled-flag specification: the admin handlers put storages with    *)
(* either value of `enabled` into the cache, the requests resolve paths.   *)
(***************************************************************************)
\* the mounts "/", "/s" and "/s/b", each enabled or not
FlaggedStorages ==
    {[storage_id |-> st.storage_id, mount_path |-> st.mount_path,
      enabled |-> flag] :
        st \in {x \in Storages : x.storage_id \in {1, 2, 5}},
        flag \in BOOLEAN}

EnabledNext ==
    \/ \E storage \in FlaggedStorages : UpdateCache(storage)
    \/ \E storage \in FlaggedStorages : RemoveFromCache(storage.mount_path)
    \/ \E path \in VirtualPaths : InfoRequest(path)
    \/ GetDriver
    \/ InfoReturn

SpecEnabled == Init /\ [][EnabledNext]_vars

(***************************************************************************)
(* The cache specification: update_cache and remove_from_cache alone, in   *)
(* every order.                                                            *)
(***************************************************************************)
CacheNext ==
    \/ \E storage \in Storages : UpdateCache(storage)
    \/ \E storage \in Storages : RemoveFromCache(storage.mount_path)

SpecCache == Init /\ [][CacheNext]_vars

(***************************************************************************)
(* The admin specification: the create, update and delete handlers of the  *)
(* storages interleave at their awaits.                                    *)
(***************************************************************************)
AdminNext ==
    \/ \E h \in Handlers : \E mount_path \in AdminMounts :
          CreateStorageCommit(h, mount_path)
    \/ \E h \in Handlers : StorageRefresh(h)
    \/ \E h \in Handlers : CreateStorageCache(h)
    \/ \E h \in Handlers : \E op \in {"update", "delete"} :
          \E storage_id \in StorageIds :
             \E mount_path \in AdminMounts \cup {KeepMount} :
                StorageLoad(h, op, storage_id, mount_path)
    \/ \E h \in Handlers : UpdateStorageCommit(h)
    \/ \E h \in Handlers : UpdateStorageCache(h)
    \/ \E h \in Handlers : DeleteStorageCommit(h)
    \/ \E h \in Handlers : DeleteStorageCache(h)

SpecAdmin == Init /\ [][AdminNext]_vars

(***************************************************************************)
(* The startup specification: processes follow one another over the same   *)
(* storages table.                                                         *)
(***************************************************************************)
StartupNext ==
    \/ AdminNext
    \/ LifespanStartup

SpecStartup == Init /\ [][StartupNext]_vars

(***************************************************************************)
(* The sort specification: lists of files and of trash items, in every     *)
(* order they can be found in, sorted under every combination of key,      *)
(* direction and dir_first; one request in a behaviour.                    *)
(***************************************************************************)
SortNext ==
    \/ \E found \in SortInputs(SortedFiles) : \E args \in SortArgs :
          listing = NoListing /\ SortResponse("files", found, args)
    \/ \E found \in SortInputs(SortedFiles \cup {MissingItem}) :
          \E args \in SortArgs :
             listing = NoListing /\ SortResponse("trash", found, args)

SpecSort == Init /\ [][SortNext]_vars

(***************************************************************************)
(* The repeat specification: TRASH and RESTORE tasks of one name each, the *)
(* worker taking them in any order, so that a task can follow one that was *)
(* asked the same.                                                         *)
(***************************************************************************)
\* the entry names the RESTORE requests give
RepeatEntryNames == {<<"a.txt">>, <<"a(1).txt">>, <<"d">>, <<"d", "f">>}

RepeatNext ==
    \/ \E req \in {r \in TrashRequests : Len(r.names) = 1} :
          TrashTaskStart(req)
    \/ TrashItemMissing
    \/ TrashCreateRecords
    \/ TrashMove
    \/ \E u \in Users : \E name \in RepeatEntryNames :
          RestoreNamesStart(u, <<name>>)
    \/ RestoreRecord
    \/ RestoreDeleteRecord
    \/ TrashTaskEnd

SpecRepeat == Init /\ [][RepeatNext]_vars

(***************************************************************************)
(* The auth specification: logins, presented tokens and the clock.         *)
(***************************************************************************)
AuthNext ==
    \/ \E user_id \in AuthUsers : Authenticate(user_id)
    \/ \E token \in PresentedTokens : GetUserFromToken(token)
    \/ \E token \in PresentedTokens : Refresh(token)
    \/ AuthReturn
    \/ Tick

SpecAuth == Init /\ [][AuthNext]_vars

(***************************************************************************)
(* The trash-root specification: trash deletes and restores of records     *)
(* with any of the entry names, on the disk with the trash root.           *)
(***************************************************************************)
EscapeInit == InitStore(InitFiles, {}, 1, EscapeDisk)

EscapeNext ==
    \/ \E entry_name \in EscapeNames : TrashDeleteEntry(entry_name)
    \/ \E entry_name \in EscapeNames :
          \E original_path \in EscapeOriginalPaths :
             RestoreEntry(entry_name, original_path)

SpecEscape == EscapeInit /\ [][EscapeNext]_vars

(***************************************************************************)
(* The liveness specification: the worker coroutine with the requests that *)
(* queue work, over a storage where two files named a.txt are in the       *)
(* trash already.  For an item of a TRASH task the handler may call        *)
(* _get_unique_entry_name; the worker takes its next step when the call    *)
(* has returned.  The event loop resumes a coroutine whose awaited call    *)
(* has returned, so the worker and the search take their next step         *)
(* whenever they have one (weak fairness).                                 *)
(***************************************************************************)
\* TaskWorker._trash_single_file run to its end for one name: the content
\* of the storage and of the trash table it leaves
TrashOne(st, user, dir, name) ==
    LET src_path == dir \o <<name>>
        entries == CollectAllEntries(st.files, src_path, dir)
        top == entries[1].entry_name
        unique == GetUniqueEntryName(st.files, st.ledger, top)
        adjusted == IF unique # top
                    THEN AdjustEntryNames(entries, top, unique)
                    ELSE entries
    IN  [files |-> MoveTree(MakeDirs(st.files, TrashRoot), src_path,
                            TrashRoot \o unique),
         ledger |-> CreateBatch(st.ledger, st.next_id, user, adjusted),
         next_id |-> st.next_id + Len(adjusted)]

\* user 1 has trashed a/a.txt, then user 2 b/a.txt
LiveStore ==
    TrashOne(TrashOne([files |-> InitFiles, ledger |-> {}, next_id |-> 1],
                      1, <<"a">>, "a.txt"),
             2, <<"b">>, "a.txt")

LiveInit ==
    InitStore(LiveStore.files, LiveStore.ledger, LiveStore.next_id, InitDisk)

\* the entry names the searches of the specification ask for
DesiredNames == {<<"a.txt">>, <<"g">>}

InTrashHandler ==
    /\ wpc = "handler"
    /\ db[wcur] # NoTask
    /\ db[wcur].type = "trash"
    /\ widx < db[wcur].total

\* the worker coroutine: one step of the loop, of _process_task or of a
\* handler, once the call it awaits has returned
WorkerStep ==
    /\ ~Searching
    /\ \/ WorkerDequeue
       \/ ProcessTaskLoad
       \/ ProcessTaskDispatch
       \/ DriverBatchItem
       \/ LedgerBatchItem
       \/ HandlerReturn
       \/ ProcessTaskComplete
       \/ ProcessTaskFail
       \/ WorkerTaskDone

LiveNext ==
    \/ \E type \in RequestTypes :
         \E total \in RequestNames(type) : AddTaskCreate(type, total)
    \/ \E t \in TaskIds : AddTaskEnqueue(t)
    \/ WorkerStep
    \/ \E desired \in DesiredNames :
          InTrashHandler /\ probe = NoProbe /\ UniqueNameStart(desired)
    \/ UniqueNameTry

SpecLive ==
    /\ LiveInit
    /\ [][LiveNext]_vars
    /\ WF_vars(WorkerStep)
    /\ WF_vars(UniqueNameTry)

(***************************************************************************)
(* Claims about the task life cycle.  C1 is checked under Spec, the claims *)
(* about the worker's own updates under SpecWorker.                        *)
(***************************************************************************)
Terminal == {"completed", "failed"}

LifecycleSteps == {<<"pending", "running">>, <<"running", "completed">>,
                   <<"running", "failed">>}

\* C1: the status of a Task changes only along PENDING -> RUNNING ->
\* COMPLETED or PENDING -> RUNNING -> FAILED; a COMPLETED or FAILED Task
\* never changes its status again.
C1_StatusLifecycle ==
    [][\A t \in TaskIds :
          (db[t] # NoTask /\ db'[t] # NoTask /\ db'[t].status # db[t].status)
              => <<db[t].status, db'[t].status>> \in LifecycleSteps]_vars

WorkerPositions == {"idle", "load", "dispatch", "handler", "complete",
                    "fail", "done"}

\* C2: no exception leaves the worker loop (a raising handler, or an id
\* without a record): the loop reaches its finally clause and the next
\* get(); when the handler of an existing Task raised, the worker persists
\* the Task FAILED with the message of the exception.
C2_FailureStaysInWorker ==
    /\ [](wpc \in WorkerPositions)
    /\ [][(wpc = "fail" /\ wpc' # "fail" /\ db[wcur] # NoTask)
             => /\ wpc' = "done"
                /\ db'[wcur].status = "failed"
                /\ db'[wcur].message = werr
                /\ werr # ""]_vars
    /\ [][(wpc = "load" /\ wpc' # "load" /\ db[wcur] = NoTask)
             => (wpc' = "done" /\ db' = db)]_vars

\* a Task whose handler raised is FAILED with the message, after an
\* earlier id without a record was passed over
C2_Witness ==
    /\ wpc = "done"
    /\ db[wcur] # NoTask
    /\ db[wcur].status = "failed"
    /\ db[wcur].message = "Conflict"
    /\ \E i \in 1..Len(enqueued) :
          /\ db[enqueued[i]] = NoTask
          /\ enqueued[i] # wcur
          /\ \A j \in 1..Len(queue) : queue[j] # enqueued[i]

\* C7: at most one Task that the worker has marked RUNNING is still
\* without the COMPLETED or FAILED update of the worker.
C7_OneRunning ==
    /\ Cardinality(wrunning) <= 1
    /\ \A t \in wrunning : t = wcur /\ db[t] # NoTask

\* the second task is RUNNING only after the first got its terminal update
C7_Witness ==
    /\ Len(started) = 2
    /\ wrunning = {started[2]}
    /\ db[started[1]] # NoTask
    /\ db[started[1]].status \in Terminal
    /\ db[started[2]].status = "running"

Pos(seq, x) == CHOOSE i \in 1..Len(seq) : seq[i] = x

C11_EnqueueAfterCommit ==
    /\ [](\A i \in 1..Len(enqueued) : enqueued[i] \in committed)
    /\ [][enqueued' # enqueued =>
             /\ Len(enqueued') = Len(enqueued) + 1
             /\ enqueued'[Len(enqueued')] \in committed
             /\ queue' = Append(queue, enqueued'[Len(enqueued')])]_vars
    /\ [][(createFailed' # createFailed) =>
             (db' = db /\ queue' = queue /\ creating' = creating)]_vars
    /\ [][(wpc = "idle" /\ wpc' = "load") => wcur' \in committed]_vars

\* one add_task call failed in create, another one committed its record
\* and the worker has taken its id from the queue
C11_Witness ==
    /\ createFailed
    /\ wpc = "load"
    /\ wcur \in committed
    /\ enqueued = <<wcur>>
    /\ nextId = 2

(***************************************************************************)
(* Claims about the trash, checked under SpecTrash.                        *)
(***************************************************************************)
InTrash(fs) == {e \in fs : IsPrefix(TrashRoot, e.path) /\ e.path # TrashRoot}

\* C3: after every finished trash, restore or trash-delete step the ledger
\* and the trash root agree: every Trash Entry has its object at
\* trash_root/entry_name and every object in the trash root has a Trash
\* Entry.
C3_LedgerMatchesTrashRoot ==
    tcur = NoItem =>
        /\ \A r \in ledger : PathExists(files, TrashRoot \o r.entry_name)
        /\ \A e \in InTrash(files) :
              \E r \in ledger : TrashRoot \o r.entry_name = e.path

\* C4: no two Trash Entries share an entry name.
C4_EntryNamesUnique ==
    \A r1, r2 \in ledger : r1.entry_name = r2.entry_name => r1 = r2

\* the step that ends a task of the given kind
Ends(kind) == tk # NoJob /\ tk.kind = kind /\ tk' = NoJob

\* the names of a TRASH task that had an object when the task started
ExistingNames == {i \in 1..tk.total :
                     PathExists(snap.files, tk.dir \o <<tk.names[i]>>)}

\* the names of the task's list are files, all there at the start but one
OneMissingFile ==
    /\ Cardinality(ExistingNames) = tk.total - 1
    /\ \A i \in ExistingNames :
          \E e \in snap.files : e.path = tk.dir \o <<tk.names[i]>> /\ ~e.dir

\* C12: when a TRASH task over N names of files, exactly one of them
\* missing, ends and no move has raised, the ledger has gained exactly N-1
\* Trash Entries, one per existing file, and each of these files has left
\* its original path and lies in the trash root under its entry name with
\* the content it had; this wherever the missing name stands in the list.
C12_MissingNameSkipped ==
    [][(Ends("trash") /\ OneMissingFile /\ Len(tk.failed) = 1) =>
          LET created == ledger' \ snap.ledger
          IN  /\ snap.ledger \subseteq ledger'
              /\ Cardinality(created) = tk.total - 1
              /\ tk.processed = tk.total - 1
              /\ \A i \in ExistingNames :
                    LET src == tk.dir \o <<tk.names[i]>>
                    IN  /\ ~PathExists(files', src)
                        /\ \E r \in created :
                              /\ r.original_path = src
                              /\ r.user_id = tk.user
                              /\ \E e \in files' : \E o \in snap.files :
                                    /\ e.path = TrashRoot \o r.entry_name
                                    /\ o.path = src
                                    /\ e.data = o.data]_vars

\* a three-name task whose missing name came first has gone through the
\* whole list: both files are in the trash root with their entries
C12_Witness ==
    /\ tk # NoJob
    /\ tk.kind = "trash"
    /\ tk.names = <<"m", "a.txt", "g">>
    /\ tk.idx = 3
    /\ tk.processed = 2
    /\ tk.failed = <<<<"m">>>>
    /\ Cardinality(ledger \ snap.ledger) = 2
    /\ PathExists(files, TrashRoot \o <<"a.txt">>)
    /\ PathExists(files, TrashRoot \o <<"g">>)

\* C13: a TRASH task in which some but not all names fail ends FAILED with
\* a message that reports the failure, and the Trash Entries of the names
\* that went through stay in the ledger.
C13_PartialFailureFails ==
    [][(Ends("trash") /\ tk.processed > 0 /\ tk.processed < tk.total) =>
          /\ tres'.status = "failed"
          /\ tres'.message # ""
          /\ Cardinality(ledger' \ snap.ledger) >= tk.processed]_vars

\* a RESTORE task ends that has restored the one entry which the TRASH task
\* of one file, ended just before it, had created
RoundTripEnds ==
    /\ Ends("restore")
    /\ snap.origin # NoOrigin
    /\ tk.processed = 1
    /\ \E r \in snap.ledger \ snap.origin.ledger : tk.ids = <<r.trash_id>>

\* C14: when a file has been trashed and the next task has restored its
\* entry, the filesystem is what it was before the two tasks, the trash root
\* directory apart (the file is at its original path with its content and
\* not in the trash root, every other object is untouched), and the ledger
\* is what it was before the two tasks.
C14_TrashRestoreRoundTrip ==
    [][RoundTripEnds =>
          /\ files' = MakeDirs(snap.origin.files, TrashRoot)
          /\ ledger' = snap.origin.ledger]_vars

\* the round trip of b/a.txt while entries of another task are in the trash
C14_Witness ==
    /\ tk # NoJob
    /\ tk.kind = "restore"
    /\ tk.idx = 1
    /\ tk.processed = 1
    /\ snap.origin # NoOrigin
    /\ snap.origin.ledger # {}
    /\ \E e \in snap.origin.files : e.path = <<"b", "a.txt">> /\ e.data = 4
    /\ ~PathExists(snap.files, <<"b", "a.txt">>)
    /\ \E e \in files : e.path = <<"b", "a.txt">> /\ e.data = 4
    /\ ledger = snap.origin.ledger

\* the step with which a RESTORE task is through with the record it holds
RestoreItemDone ==
    /\ tk # NoJob
    /\ tk.kind = "restore"
    /\ tk' # NoJob
    /\ tk'.idx = tk.idx + 1

\* C15: when a RESTORE task finds an object at the original path of an
\* entry whose object is in the trash root, the entry is restored all the
\* same (under a renamed destination): once the task is through with it the
\* object has left the trash root, the Trash Entry is deleted and what was
\* at the original path is still there.
C15_RestoreRenamesOnConflict ==
    [][RestoreItemDone =>
          LET record == RecordOf(snap.ledger, tk.ids[tk.idx + 1])
          IN  (/\ PathExists(snap.files, record.original_path)
               /\ PathExists(snap.files, TrashRoot \o record.entry_name))
                  => /\ record \notin ledger'
                     /\ ~PathExists(files', TrashRoot \o record.entry_name)
                     /\ Subtree(snap.files, record.original_path)
                           \subseteq files']_vars

\* C16: a RESTORE task deletes a Trash Entry only when the object of the
\* entry has already been moved out of the trash root to its original path;
\* and when the move of an entry raises, the task is through with the entry
\* with the Trash Entry still in the ledger and the object still in the
\* trash root.
C16_DeleteAfterMove ==
    /\ [][(tk # NoJob /\ tk.kind = "restore") =>
             \A r \in ledger \ ledger' :
                /\ ~PathExists(files, TrashRoot \o r.entry_name)
                /\ PathExists(files, r.original_path)
                /\ tcur # NoItem
                /\ tcur.record = r]_vars
    /\ [][(RestoreItemDone /\ tcur = NoItem) =>
             LET record == RecordOf(ledger, tk.ids[tk.idx + 1])
             IN  /\ record \in ledger'
                 /\ PathExists(files, TrashRoot \o record.entry_name)
                       => Subtree(files, TrashRoot \o record.entry_name)
                             \subseteq files']_vars

\* the move of an entry has raised: the entry is on the failed list, its
\* record and its object are where they were
C16_Witness ==
    /\ tk # NoJob
    /\ tk.kind = "restore"
    /\ tk.idx = 1
    /\ tk.processed = 0
    /\ LET record == RecordOf(snap.ledger, tk.ids[1])
       IN  /\ ~PathExists(snap.files, record.original_path)
           /\ PathExists(snap.files, TrashRoot \o record.entry_name)
           /\ tk.failed = <<record.entry_name>>
           /\ record \in ledger
           /\ PathExists(files, TrashRoot \o record.entry_name)

\* C17: trashing a directory writes one Trash Entry for the directory and
\* one for each file and directory below it; and when a RESTORE task has
\* restored one entry, the object of the entry is at its original path and
\* every other Trash Entry is still in the ledger with its object in the
\* trash root as before.
C17_EntriesRestoreAlone ==
    /\ [][(tcur = NoItem /\ tcur' # NoItem /\ tk.kind = "trash") =>
             \A e \in Subtree(files, tcur'.src) :
                \E r \in ledger' \ ledger : r.original_path = e.path]_vars
    /\ [][(Ends("restore") /\ tk.processed = 1) =>
             LET record == RecordOf(snap.ledger, tk.ids[1])
             IN  /\ PathExists(files', record.original_path)
                 /\ ledger' = snap.ledger \ {record}
                 /\ \A q \in ledger' :
                       PathExists(snap.files, TrashRoot \o q.entry_name)
                          => PathExists(files', TrashRoot \o q.entry_name)]_vars

\* the entry names of the claim
FirstName == <<"a.txt">>
SecondName == <<"a(1).txt">>
Taken(name) ==
    \/ PathExists(files, TrashRoot \o name)
    \/ \E r \in ledger : r.entry_name = name

\* C18: a file named a.txt is trashed under the entry name a.txt when that
\* name is free in the trash root and the ledger, and under a(1).txt when
\* a.txt is taken and a(1).txt free, with its own path as original path;
\* and when a RESTORE task has restored one of the two entries, the file is
\* at the original path of that entry with its content, whether or not the
\* other entry is still in the trash, and the other entry is untouched.
C18_SameNameTwice ==
    /\ [][(/\ tcur = NoItem /\ tcur' # NoItem /\ tk.kind = "trash"
           /\ tk.names[tk.idx + 1] = "a.txt") =>
             /\ ~Taken(FirstName) => tcur'.unique = FirstName
             /\ (Taken(FirstName) /\ ~Taken(SecondName))
                   => tcur'.unique = SecondName
             /\ \E r \in ledger' \ ledger :
                   /\ ledger' = ledger \cup {r}
                   /\ r.entry_name = tcur'.unique
                   /\ r.original_path = tk.dir \o <<"a.txt">>]_vars
    /\ [][(Ends("restore") /\ tk.processed = 1) =>
             LET record == RecordOf(snap.ledger, tk.ids[1])
             IN  record.entry_name \in {FirstName, SecondName} =>
                    /\ \E e \in files' : \E o \in snap.files :
                          /\ e.path = record.original_path
                          /\ o.path = TrashRoot \o record.entry_name
                          /\ e.data = o.data
                          /\ ~e.dir
                    /\ \A q \in snap.ledger \ {record} :
                          /\ q \in ledger'
                          /\ Subtree(snap.files, TrashRoot \o q.entry_name)
                                \subseteq files']_vars

\* a/a.txt was trashed as a.txt, b/a.txt after it as a(1).txt, and the
\* second has been restored to b/a.txt while the first is in the trash
C18_Witness ==
    /\ tk # NoJob
    /\ tk.kind = "restore"
    /\ tk.processed = 1
    /\ \E r1, r2 \in snap.ledger :
          /\ r1.entry_name = FirstName
          /\ r1.original_path = <<"a", "a.txt">>
          /\ r2.entry_name = SecondName
          /\ r2.original_path = <<"b", "a.txt">>
          /\ r1.trash_id < r2.trash_id
          /\ tk.ids = <<r2.trash_id>>
          /\ ledger = snap.ledger \ {r2}
    /\ \E e \in files : e.path = <<"b", "a.txt">> /\ e.data = 4
    /\ \E e \in files : e.path = TrashRoot \o FirstName /\ e.data = 1

\* C19: when an empty-trash task ends COMPLETED, the ledger holds no Trash
\* Entry of the task's user, none of the objects of the entries the user
\* had is left in the trash root, and the entries of the other users are in
\* the ledger with their objects as before.
C19_EmptyTrashLeavesNothing ==
    [][(Ends("empty") /\ tres'.status = "completed") =>
          /\ \A r \in ledger' : r.user_id # tk.user
          /\ \A r \in snap.ledger :
                r.user_id = tk.user
                   => ~PathExists(files', TrashRoot \o r.entry_name)
          /\ \A r \in snap.ledger :
                r.user_id # tk.user
                   => /\ r \in ledger'
                      /\ Subtree(snap.files, TrashRoot \o r.entry_name)
                            \subseteq files']_vars

\* C20: a delete-by-id task goes to work only when every id it names has a
\* Trash Entry and every such entry belongs to the task's user, and then
\* the entries it deletes and the objects it removes from the trash root are
\* those of the ids it names and no other; a task that fails with NotFound
\* before its loop changes neither the ledger nor the filesystem.
C20_DeleteByIdOnlyNamed ==
    /\ [][(tk = NoJob /\ tk' # NoJob /\ tk'.kind = "ids") =>
             \A i \in 1..tk'.total :
                \E r \in ledger :
                   r.trash_id = tk'.ids[i] /\ r.user_id = tk'.user]_vars
    /\ [][(tk = NoJob /\ tk' = NoJob) =>
             (files' = files /\ ledger' = ledger)]_vars
    /\ [][Ends("ids") =>
             LET named == {RecordOf(snap.ledger, tk.ids[i]) :
                              i \in 1..tk.total}
             IN  /\ snap.ledger \ ledger' \subseteq named
                 /\ \A e \in snap.files \ files' :
                       \E r \in named :
                          e.path = TrashRoot \o r.entry_name]_vars

\* the user of the task owns a Trash Entry with that entry name
OwnsEntry(led, user, name) ==
    \E r \in led : r.user_id = user /\ r.entry_name = name

\* C21: a RESTORE task goes to work only when every name it requests has a
\* Trash Entry owned by the task's user; a task that does not go to work is
\* FAILED with NotFound and has changed neither the filesystem nor the
\* ledger; and when the task comes to an entry whose object is missing from
\* the trash root, it is through with the entry without a change to the
\* filesystem (no destination is made) or to the ledger.
C21_RestoreNotFoundFirst ==
    /\ [][(tk = NoJob /\ tk' # NoJob /\ tk'.kind = "restore") =>
             \A i \in 1..Len(tk'.names) :
                OwnsEntry(ledger, tk'.user, tk'.names[i])]_vars
    /\ [][(tk = NoJob /\ tk' = NoJob) =>
             /\ tres'.status = "failed"
             /\ tres'.message = "Trash entry not found."
             /\ files' = files
             /\ ledger' = ledger]_vars
    /\ [][(RestoreItemDone /\ tcur = NoItem) =>
             LET record == RecordOf(ledger, tk.ids[tk.idx + 1])
             IN  ~PathExists(files, TrashRoot \o record.entry_name)
                    => /\ files' = files
                       /\ ledger' = ledger
                       /\ tk'.processed = tk.processed]_vars

(***************************************************************************)
(* Claims about the batches of the drivers, checked under SpecLocalBatch   *)
(* and SpecS3Batch.                                                        *)
(***************************************************************************)
\* a batch is at a name of its list
AtName == batch # NoBatch /\ batch.idx < Len(batch.names)
\* the object a driver finds for the name under a directory of the batch
NameFound(dir) ==
    IF batch.driver = "local"
    THEN DiskExists(disk, OsPathJoin(dir, <<batch.names[batch.idx + 1]>>))
    ELSE KeyExists(bucket, PathToKey(dir \o <<batch.names[batch.idx + 1]>>))

\* C22: when a batch copy, move or delete comes to a name whose source does
\* not exist, it goes on to the next name without error and without a
\* change to the storage; when a batch copy or move comes to a name whose
\* source exists and whose destination exists too, the batch ends there
\* with an error, the names before it gone through, and the storage as it
\* was before that name (so that the names after it are not touched).
C22_BatchSkipsMissingAbortsOnError ==
    /\ [][(AtName /\ ~NameFound(batch.src)) =>
             /\ batch' # NoBatch
             /\ batch'.idx = batch.idx + 1
             /\ disk' = disk
             /\ bucket' = bucket]_vars
    /\ [][(/\ AtName
           /\ batch.phase \in {"copy", "move"}
           /\ NameFound(batch.src)
           /\ NameFound(batch.dst)) =>
             /\ batch' = NoBatch
             /\ bres'.error \notin {"", "none"}
             /\ bres'.done = batch.idx
             /\ disk' = disk
             /\ bucket' = bucket]_vars

\* the object a driver finds at a logical path of a rename call
Found(d, bkt, driver, path) ==
    IF driver = "local"
    THEN DiskExists(d, GetPhysicalPath(path).path)
    ELSE KeyExists(bkt, PathToKey(path))

\* C23: a rename whose source does not exist raises NotFound, one whose
\* source and destination both exist raises Conflict, and both leave the
\* storage as it was; after a rename that returned, there is an object at
\* the destination path and none at the source path.
C23_RenameErrorsAndEffect ==
    [][LET call == renamed'
       IN  /\ ~Found(disk, bucket, call.driver, call.src)
                => /\ call.error = "NotFound"
                   /\ disk' = disk
                   /\ bucket' = bucket
           /\ (/\ Found(disk, bucket, call.driver, call.src)
               /\ Found(disk, bucket, call.driver, call.dst))
                => /\ call.error = "Conflict"
                   /\ disk' = disk
                   /\ bucket' = bucket
           /\ call.error = ""
                => /\ Found(disk', bucket', call.driver, call.dst)
                   /\ ~Found(disk', bucket', call.driver, call.src)]_vars

(***************************************************************************)
(* Claims about the LocalDriver, checked under SpecPath.                   *)
(***************************************************************************)
\* the root directory itself or a path below it
InsideRoot(physical_path) ==
    \/ physical_path = RootPath
    \/ StartsWith(physical_path, RootPath \o <<Sep>>)

\* C5: every physical path a LocalDriver operation reads, writes or deletes
\* lies inside the root directory of the driver, and an operation that ends
\* with BadRequest leaves the storage unchanged.
C5_StaysInsideRoot ==
    /\ [](\A p \in touched : InsideRoot(p))
    /\ [][outcome' = "BadRequest" => disk' = disk]_vars

(***************************************************************************)
(* Claims about the mount resolver, checked under SpecMount.               *)
(***************************************************************************)
\* a path with its leading "/" and without trailing ones
Cleaned(str) ==
    LET rooted == IF str = <<>> \/ str[1] # "/" THEN <<"/">> \o str ELSE str
    IN  IF rooted = <<"/">> THEN rooted ELSE RStrip(rooted, {"/"})

\* the claim's notion of a mount that matches P
ClaimMatches(mount_path, P) ==
    \/ Cleaned(mount_path) = <<"/">>
    \/ Cleaned(P) = Cleaned(mount_path)
    \/ /\ Len(Cleaned(P)) > Len(Cleaned(mount_path))
       /\ SubSeq(Cleaned(P), 1, Len(Cleaned(mount_path)) + 1)
              = Cleaned(mount_path) \o <<"/">>

\* C6: a resolution returns a cached mount that matches P and no matching
\* mount has a longer mount path; when no mount matches it returns the
\* fallback local mount.
C6_LongestMatch ==
    [][(resolved = NoStorage /\ resolved' # NoStorage) =>
          LET matching == {i \in 1..Len(cache) :
                              ClaimMatches(cache[i].mount_path, asked)}
          IN  IF matching = {}
              THEN resolved' = FallbackStorage
              ELSE /\ \E i \in matching : resolved' = cache[i]
                   /\ \A j \in matching :
                         Len(cache[j].mount_path)
                             <= Len(resolved'.mount_path)]_vars

\* "/sb" was resolved with "/s" and "/" mounted: "/s" does not match, and
\* the root mount is returned
C6_Witness ==
    /\ asked = <<"/", "s", "b">>
    /\ \E i \in 1..Len(cache) : cache[i].mount_path = <<"/", "s">>
    /\ \E i \in 1..Len(cache) :
          cache[i].mount_path = <<"/">> /\ resolved = cache[i]

(***************************************************************************)
(* Claims about the mount cache and the storages table.                    *)
(***************************************************************************)
\* no admin handler is in flight
AdminIdle == \A h \in Handlers : admin[h] = NoCall
CachedStorages == {cache[i] : i \in 1..Len(cache)}

\* C24: whenever no admin handler is in flight, the mount cache holds
\* exactly the rows of the storages table, each once and under the mount
\* path the row has: no entry of a deleted storage or of an old mount path
\* is left, and a create that failed on a taken mount path has changed
\* nothing.
C24_CacheIsPersistedStorages ==
    AdminIdle =>
        /\ CachedStorages = rows
        /\ Cardinality(CachedStorages) = Len(cache)

\* C25: when the startup of a process has finished, the mount cache holds
\* every row of the storages table.
C25_StartupLoadsEveryStorage ==
    [][LifespanStartup => \A storage \in rows' : storage \in CachedStorages']_vars

\* the mount a request for P gets from get_driver over the mounts
ResolvedMount(mounts, P) ==
    IF MatchStorage(mounts, P) = NoStorage
    THEN FallbackStorage
    ELSE MatchStorage(mounts, P)

\* the cache is changed for the storage: it is added, put again or removed
CacheChange(storage) ==
    \/ UpdateCache(storage)
    \/ RemoveFromCache(storage.mount_path)

\* mount_path is a prefix of P that ends at a "/" of P
BoundedPrefix(mount_path, P) ==
    /\ Len(P) > Len(mount_path)
    /\ SubSeq(P, 1, Len(mount_path)) = mount_path
    /\ \/ mount_path[Len(mount_path)] = "/"
       \/ P[Len(mount_path) + 1] = "/"

\* C26, as stated: a change of the cache for a mount whose mount path is
\* not "/", does not equal P and is no "/"-bounded prefix of P leaves the
\* mount P resolves to as it was.
C26_UnrelatedMountChange ==
    [][\A storage \in Storages :
          CacheChange(storage) =>
             \A P \in VirtualPaths :
                (/\ storage.mount_path # <<"/">>
                 /\ storage.mount_path # P
                 /\ ~BoundedPrefix(storage.mount_path, P))
                    => ResolvedMount(cache', P) = ResolvedMount(cache, P)]_vars

\* C26, amended: a change of the cache for a mount whose mount path,
\* without its trailing slashes, is not "/", does not equal P and is no
\* "/"-bounded prefix of P, P taken with a leading slash and without
\* trailing ones, leaves the mount P resolves to as it was.
C26_UnrelatedCleanedMountChange ==
    [][\A storage \in Storages :
          CacheChange(storage) =>
             \A P \in VirtualPaths :
                ~ClaimMatches(storage.mount_path, P)
                   => ResolvedMount(cache', P) = ResolvedMount(cache, P)]_vars

\* the mount "/sb" was added after the mounts "/" and "/s/", and "/s/b"
\* resolves to the mount "/s/", "/sb" to the mount "/"
C26_Witness ==
    /\ Len(cache) = 3
    /\ cache[1].mount_path = <<"/">>
    /\ cache[2].mount_path = <<"/", "s", "/">>
    /\ cache[3].mount_path = <<"/", "s", "b">>
    /\ ResolvedMount(cache, <<"/", "s", "/", "b">>) = cache[2]
    /\ ResolvedMount(cache, <<"/", "s", "b", "/">>) = cache[3]

(***************************************************************************)
(* Claims about the shutdown of the process, checked under SpecShutdown.   *)
(***************************************************************************)
\* C27: after the shutdown, a Task the worker has marked RUNNING is not
\* left RUNNING: it has got its COMPLETED or its FAILED update.
C27_NoRunningAfterShutdown ==
    wpc = "cancelled" =>
        \A t \in wrunning : db[t] # NoTask => db[t].status # "running"

(***************************************************************************)
(* Claims about the WebDAV adapter, checked under SpecWebdav.              *)
(***************************************************************************)
\* the object of the local root a WebDAV path names
DavTarget(path) == NormPath(RootPath \o <<Sep>> \o path)
\* the objects whose parent directory is the object at the path
ImmediateChildren(d, target) ==
    {e \in d : /\ Len(e.path) > Len(target) + 1
               /\ SubSeq(e.path, 1, Len(target) + 1) = target \o <<Sep>>
               /\ \A i \in (Len(target) + 2)..Len(e.path) : e.path[i] # Sep}

\* a PROPFIND has been answered in the step
Answered(path, depth) ==
    /\ multistatus' # multistatus
    /\ multistatus'.path = path
    /\ multistatus'.depth = depth

\* C28: a PROPFIND on an existing directory answers with a multistatus of
\* one response for Depth 0 and of one response more than the directory
\* has immediate children for Depth 1; on an existing file it answers with
\* a multistatus of one response for either Depth.
C28_PropfindResponseCount ==
    [][\A path \in PropfindPaths : \A depth \in {"0", "1"} :
          (/\ Answered(path, depth)
           /\ \E e \in disk : e.path = DavTarget(path))
              => /\ multistatus'.status = 207
                 /\ Len(multistatus'.responses) =
                       IF depth = "1"
                          /\ \E e \in disk : e.path = DavTarget(path) /\ e.dir
                       THEN 1 + Cardinality(
                                ImmediateChildren(disk, DavTarget(path)))
                       ELSE 1]_vars

\* a PROPFIND with Depth 1 on the directory "d", which holds "f" and "g",
\* was answered with three responses, and "d" has no other child
C28_Witness ==
    /\ multistatus # NoMultistatus
    /\ multistatus.path = <<"d">>
    /\ multistatus.depth = "1"
    /\ multistatus.status = 207
    /\ Len(multistatus.responses) = 3
    /\ multistatus.responses[2].path = <<"d", "/", "f">>
    /\ multistatus.responses[3].path = <<"d", "/", "g">>
    /\ Cardinality(ImmediateChildren(disk, <<"/", "r", "/", "d">>)) = 2

(***************************************************************************)
(* Claims about the list handler, checked under SpecList.                  *)
(***************************************************************************)
\* the mounts "/" (local) and "/s" (object store) are the configured ones
RootAndStoreMounted ==
    {cache[i].mount_path : i \in 1..Len(cache)} = {<<"/">>, <<"/", "s">>}
ItemsOf(response) == {response.items[i] : i \in 1..Len(response.items)}

\* C29: with the mounts "/" (local) and "/s" (object store) configured, a
\* list of "/" returns the children of the local root and, besides them,
\* one directory entry that is named after the other mount.
C29_RootListingShowsMounts ==
    [][(/\ listing' # listing
        /\ listing'.path = <<"/">>
        /\ RootAndStoreMounted)
          => /\ listing'.status = "ok"
             /\ {item.name : item \in ItemsOf(listing')} =
                   {SubSeq(e.path, Len(RootPath) + 2, Len(e.path)) :
                        e \in ImmediateChildren(disk, RootPath)}
                       \cup {<<"s">>}
             /\ Cardinality({i \in 1..Len(listing'.items) :
                    listing'.items[i].name = <<"s">>}) = 1
             /\ \A item \in ItemsOf(listing') : item.name = <<"s">> => item.dir]_vars

(***************************************************************************)
(* Claims about the DELETE tasks, checked under SpecDelete.                *)
(***************************************************************************)
\* the delete variant the first dst_dirs value of a DELETE task stands for
VariantOf(task) ==
    IF task.dst_dirs = <<>> THEN "delete"
    ELSE IF task.dst_dirs[1] = "__trash_empty__" THEN "empty"
    ELSE IF task.dst_dirs[1] = "__trash_ids__" THEN "ids"
    ELSE IF task.dst_dirs[1] = "__trash_path__" THEN "path"
    ELSE "delete"
TrashVariants == {"empty", "ids", "path"}
OutsideTrash(fs) == {e \in fs : ~IsPrefix(TrashRoot, e.path)}

\* C30: a DELETE task goes to work in the one variant its first dst_dirs
\* value selects and stays in it; a task with a sentinel removes no object
\* outside the trash root, its source dir included, and a task without a
\* sentinel removes no Trash record; a task that is rejected removes
\* nothing.
C30_DeleteVariantsExclusive ==
    /\ [][\A task \in DeleteTasks :
             (/\ tk = NoJob
              /\ tk' # NoJob
              /\ tk'.kind # "trash"
              /\ tk'.user = task.user
              /\ HandleDelete(task))
                 => /\ tk'.kind = VariantOf(task)
                    /\ files' = files
                    /\ ledger' = ledger]_vars
    /\ [][(tk = NoJob /\ tk' = NoJob)
             => (files' = files /\ ledger' = ledger)]_vars
    /\ [][(tk # NoJob /\ tk.kind \in TrashVariants)
             => /\ tk' = NoJob \/ tk'.kind = tk.kind
                /\ OutsideTrash(files') = OutsideTrash(files)]_vars
    /\ [][(tk # NoJob /\ tk.kind = "delete")
             => /\ tk' = NoJob \/ tk'.kind = tk.kind
                /\ ledger' = ledger]_vars

\* a delete-by-path task with source dir "b" and name "a.txt" has removed
\* the Trash Entry a.txt, and b/a.txt is where it was
C30_Witness ==
    /\ tk # NoJob
    /\ tk.kind = "path"
    /\ tk.dir = <<"b">>
    /\ tk.names = <<<<"a.txt">>>>
    /\ tk.processed = 1
    /\ PathExists(files, <<"b", "a.txt">>)
    /\ ~PathExists(files, TrashRoot \o <<"a.txt">>)
    /\ ledger = {}

(***************************************************************************)
(* Claims about termination, checked under SpecLive.                       *)
(***************************************************************************)
Queued(t) == \E i \in 1..Len(queue) : queue[i] = t
WasEnqueued(t) == \E i \in 1..Len(enqueued) : enqueued[i] = t
TaskSettled(t) ==
    /\ ~Queued(t)
    /\ wcur # t
    /\ db[t].status \in {"completed", "failed"}

\* C31: with every driver and repository call returning, every Task put on
\* the queue is dequeued and reaches COMPLETED or FAILED, and every search
\* for a free trash entry name that has started returns.
C31_EnqueuedTaskSettles ==
    /\ \A t \in TaskIds : WasEnqueued(t) ~> TaskSettled(t)
    /\ Searching ~> ~Searching

\* a search went past two taken names and returned the third, in the
\* handler of a trash task that came after a settled task
C31_Witness ==
    /\ probe.counter = 2
    /\ probe.result = <<"a(2).txt">>
    /\ InTrashHandler
    /\ \E t \in TaskIds : WasEnqueued(t) /\ TaskSettled(t)

(***************************************************************************)
(* Claims about the sorting of results, checked under SpecSort.            *)
(***************************************************************************)
Sorted == listing # NoListing
\* the key the response was asked to be ordered by
RequestedKey ==
    IF listing.kind = "trash" /\ listing.args.sort_by = "created"
    THEN "created or datetime.min"
    ELSE listing.args.sort_by
\* item x must not come after item y in the requested key and direction
Precedes(x, y) ==
    ComesBefore(x, y, RequestedKey, listing.args.sort_order = "desc")
SameGroup(x, y) == listing.args.dir_first => x.dir = y.dir
PositionIn(list, x) == CHOOSE i \in 1..Len(list) : list[i] = x

\* C32: a sorted result holds the files found, each once; no entry comes
\* after one the requested key and direction put behind it, among all
\* entries without dir_first and inside the directories and inside the
\* files with it; with dir_first no file comes before a directory; and
\* entries with equal keys (of one group) are in the order they were found.
C32_SortedByKeyThenDirFirst ==
    Sorted =>
        /\ Len(listing.items) = Len(listing.found)
        /\ {listing.items[i] : i \in 1..Len(listing.items)}
              = {listing.found[i] : i \in 1..Len(listing.found)}
        /\ \A i, j \in 1..Len(listing.items) :
              i < j =>
                 LET x == listing.items[i]
                     y == listing.items[j]
                 IN  /\ SameGroup(x, y) => ~Precedes(y, x)
                     /\ listing.args.dir_first => ~(y.dir /\ ~x.dir)
                     /\ (SameGroup(x, y) /\ ~Precedes(x, y))
                           => PositionIn(listing.found, x)
                                 < PositionIn(listing.found, y)

\* a descending sort by size with dir_first: the directories f, b before
\* the files g, d, and n, found before d, last among the files only because
\* of its size
C32_Witness ==
    /\ Sorted
    /\ listing.kind = "trash"
    /\ listing.args = [sort_by |-> "size", sort_order |-> "desc",
                       dir_first |-> TRUE]
    /\ Len(listing.found) = 3
    /\ listing.found[1].name = <<"d">>
    /\ listing.found[2].name = <<"b">>
    /\ listing.found[3].name = <<"n">>
    /\ listing.items[1].name = <<"b">>
    /\ listing.items[3].name = <<"n">>

(***************************************************************************)
(* Claims about a task that repeats the one before it, checked under       *)
(* SpecRepeat.  The worker runs one task at a time, so the second of two   *)
(* tasks enqueued one after the other starts in the state the first left.  *)
(***************************************************************************)
\* a task of one name of the given kind is running
OneNameJob(job, kind) == job # NoJob /\ job.kind = kind /\ job.total = 1
\* the object a TRASH task of one name is about
ItemOf(job) == job.dir \o <<job.names[1]>>
\* the records a RESTORE task of one name looks up
EntriesOf(led, job) ==
    {r \in led : r.user_id = job.user /\ r.entry_name = job.names[1]}
Untouched == files' = files /\ ledger' = ledger

\* C33: a TRASH task of one name that has moved its item leaves no object
\* at the item's path, and a TRASH task that finds no object at the path of
\* its one name changes no file and no Trash Entry and ends FAILED; a
\* RESTORE task of one name that has moved its item leaves no Trash Entry
\* of the user with that name, and a RESTORE request of one name that finds
\* no such entry changes no file and no Trash Entry and ends FAILED.  So of
\* two tasks asked the same one after the other, the second does nothing
\* and fails when the first has made the move.
C33_RepeatedTaskFailsUntouched ==
    /\ [][(OneNameJob(tk, "trash") /\ tk' = NoJob /\ tk.processed = 1)
             => /\ ~PathExists(files', ItemOf(tk))
                /\ PathExists(files', TrashRoot)]_vars
    /\ [][(tk = NoJob /\ OneNameJob(tk', "trash")
             /\ ~PathExists(files, ItemOf(tk')) /\ PathExists(files, TrashRoot))
             => Untouched]_vars
    /\ [][(OneNameJob(tk, "trash")
             /\ ~PathExists(snap.files, ItemOf(tk))
             /\ PathExists(snap.files, TrashRoot))
             => /\ Untouched
                /\ tk' = NoJob => tres'.status = "failed"]_vars
    /\ [][(OneNameJob(tk, "restore") /\ tk' = NoJob /\ tk.processed = 1)
             => EntriesOf(ledger', tk) = {}]_vars
    /\ [][(tk = NoJob /\ OneNameJob(tk', "restore"))
             => EntriesOf(ledger, tk') # {}]_vars
    /\ [][(tk = NoJob /\ tk' = NoJob /\ tres' # tres)
             => Untouched /\ tres'.status = "failed"]_vars

\* the second TRASH task of a/a.txt has gone through its name and found
\* nothing: the file is in the trash root with the entry the first wrote
C33_Witness ==
    /\ OneNameJob(tk, "trash")
    /\ ItemOf(tk) = <<"a", "a.txt">>
    /\ tk.idx = 1
    /\ tk.processed = 0
    /\ files = snap.files
    /\ \E r \in ledger : r.original_path = <<"a", "a.txt">>
    /\ PathExists(files, TrashRoot \o <<"a.txt">>)

\* a RESTORE request of one name was refused where the file is back at its
\* original path and the trash table is empty again
C33_WitnessRestore ==
    /\ tk = NoJob
    /\ tres = RaisedRecord("Trash entry not found.")
    /\ ledger = {}
    /\ nextTrashId > 1
    /\ PathExists(files, TrashRoot)
    /\ \A e \in InitFiles : e \in files

(***************************************************************************)
(* Claims about the moves of the S3Driver, checked under SpecS3Move.       *)
(***************************************************************************)
\* the objects of the bucket that a step removes
Removed == {o \in bucket : ~KeyExists(bucket', o.key)}
\* the object is in the bucket under the name, in the directory
HeldAt(bkt, dir, name, o) ==
    \E p \in bkt : p.key = PathToKey(dir \o <<name>>) /\ p.data = o.data
\* the move deletes its sources
Deleting == batch # NoBatch /\ batch.op = "move" /\ batch.phase = "delete"

\* C34: while a batch move copies, no object leaves the bucket, also when a
\* copy fails; when the move deletes, every name of the batch has its
\* object in the destination directory, and a source that is still there
\* has the data of its copy; an object that leaves the bucket is the source
\* of the name the deletion is at.  A rename removes no object but its
\* source, and only when it returns without error with the data of the
\* source in the destination directory under the name of the source.
C34_NoSourceDeletedBeforeAllCopied ==
    /\ [][(batch # NoBatch /\ ~Deleting) => Removed = {}]_vars
    /\ [](Deleting =>
            \A i \in 1..Len(batch.names) :
               /\ KeyExists(bucket, PathToKey(batch.dst \o <<batch.names[i]>>))
               /\ \A o \in bucket :
                     o.key = PathToKey(batch.src \o <<batch.names[i]>>)
                        => HeldAt(bucket, batch.dst, batch.names[i], o))
    /\ [][Deleting =>
            \A o \in Removed :
               /\ batch.idx < Len(batch.names)
               /\ o.key = PathToKey(batch.src \o <<batch.names[batch.idx + 1]>>)
               /\ HeldAt(bucket', batch.dst, batch.names[batch.idx + 1], o)]_vars
    /\ [][(batch = NoBatch /\ batch' = NoBatch) =>
            \A o \in Removed :
               /\ renamed'.error = ""
               /\ o.key = PathToKey(renamed'.src)
               /\ HeldAt(bucket', DirName(renamed'.dst),
                         renamed'.src[Len(renamed'.src)], o)]_vars

\* a move of f and m from x to y has copied f and failed at m, which has no
\* object: both x/f and its copy y/f are in the bucket
C34_Witness ==
    /\ batch = NoBatch
    /\ bres = [error |-> "NotFound", done |-> 1]
    /\ \E o \in bucket : o.key = <<"p", "x", "f">>
                            /\ HeldAt(bucket, <<"y">>, "f", o)

\* a move has deleted its last source
C34_WitnessMoved ==
    /\ Deleting
    /\ batch.idx = Len(batch.names)
    /\ batch.idx = 2
    /\ \A i \in 1..2 : ~KeyExists(bucket, PathToKey(batch.src \o <<batch.names[i]>>))

(***************************************************************************)
(* Claims about the enabled flag of a mount, checked under SpecEnabled.    *)
(***************************************************************************)
\* the cache without its disabled mounts
EnabledMounts(mounts) == SelectSeq(mounts, LAMBDA st : st.enabled)
\* get_driver over the given mounts
DriverOver(mounts, path) ==
    IF MatchStorage(mounts, path) = NoStorage
    THEN FallbackStorage
    ELSE MatchStorage(mounts, path)

\* C35: the storage a path is resolved to is the one it is resolved to
\* when the disabled mounts are left out of the cache; so no disabled mount
\* is selected.
C35_DisabledMountNeverSelected ==
    [][(asked # NoPath /\ resolved = NoStorage /\ resolved' # NoStorage)
          => resolved' = DriverOver(EnabledMounts(cache), asked)]_vars

(***************************************************************************)
(* Claims about the stop of the worker, checked under SpecShutdown.        *)
(***************************************************************************)
\* a step persists a Task RUNNING that was PENDING
MovedToRunning ==
    \E t \in TaskIds :
       /\ db[t] # NoTask
       /\ db'[t] # NoTask
       /\ db[t].status = "pending"
       /\ db'[t].status = "running"

\* C36: once stop() has set _running to False, no step moves a Task from
\* PENDING to RUNNING and the worker marks no further Task RUNNING, be its
\* id in the queue at that time or put there later.
C36_NoTaskStartedAfterStop ==
    [][~running => (~MovedToRunning /\ started' = started)]_vars

\* after the stop a PENDING Task waits in the queue, behind the Task the
\* worker was at, and add_task has put a further id
C36_Witness ==
    /\ ~running
    /\ wcur # 0
    /\ Len(queue) >= 1
    /\ \A i \in 1..Len(queue) :
          db[queue[i]] # NoTask /\ db[queue[i]].status = "pending"
    /\ Len(enqueued) > Len(started) + Len(queue)

(***************************************************************************)
(* Claims about the tokens, checked under SpecAuth.                        *)
(***************************************************************************)
\* the last call accepted its token
Accepted == authed # NoAuth /\ authed.error = ""

\* C37: a token that get_user_from_token or refresh has accepted was
\* presented before its expires_at.
C37_AcceptedOnlyBeforeExpiry ==
    Accepted => authed.at < authed.token.claims.expires_at


\* the type of token a call asks for
RequiredType(fn) == IF fn = "access" THEN "access" ELSE "refresh"
\* the stored tokens with the id of the presented token
StoredFor(token) == {r \in tokens : r.token_id = token.claims.token_id}

\* C38: a token that get_user_from_token or refresh has accepted has a
\* stored record, and that record has the type the call asks for (access
\* for get_user_from_token, refresh for refresh), the user of the payload
\* and the expires_at of the payload.
C38_AcceptedTokenMatchesStoredRecord ==
    Accepted =>
       /\ StoredFor(authed.token) # {}
       /\ \A r \in StoredFor(authed.token) :
             /\ r.type = RequiredType(authed.fn)
             /\ r.user_id = authed.token.claims.user_id
             /\ r.expires_at = authed.token.claims.expires_at

\* get_user_from_token has rejected a refresh token whose stored record has
\* the user and the expiry of its payload
C38_Witness ==
    /\ authed # NoAuth
    /\ authed.fn = "access"
    /\ authed.error = "Invalid access token."
    /\ authed.token.key = SecretKey
    /\ \E r \in StoredFor(authed.token) :
          /\ r.type = "refresh"
          /\ r.user_id = authed.token.claims.user_id
          /\ r.expires_at = authed.token.claims.expires_at

\* refresh has rejected an access token, one without record and one whose
\* record has another expiry
C38_WitnessRefresh ==
    /\ authed # NoAuth
    /\ authed.fn = "refresh"
    /\ authed.error = "Invalid refresh token."
    /\ \/ StoredFor(authed.token) = {}
       \/ \E r \in StoredFor(authed.token) :
             r.type = "refresh" /\ r.expires_at # authed.token.claims.expires_at

(***************************************************************************)
(* Claims about the trash root, checked under SpecEscape.                  *)
(***************************************************************************)
\* the path is the trash root or below it
UnderTrashRoot(path) ==
    \/ path = EscapeTrashRoot
    \/ StartsWith(path, EscapeTrashRoot \o <<Sep>>)
\* the entry name, joined to the trash root, leads out of it
ResolvesOutside(entry_name) ==
    ~UnderTrashRoot(NormPath(OsPathJoin(EscapeTrashRoot, entry_name)))

\* C39: a trash delete or a restore of a Trash Entry removes and moves
\* only what is at the trash root or below it: every object outside of the
\* trash root stays where it is; and for an entry name that leads out of
\* the trash root the step raises BadRequest and leaves the disk as it is.
C39_NothingOutsideTrashRemoved ==
    /\ [][/\ \A e \in disk : ~UnderTrashRoot(e.path) => e \in disk'
          /\ \A path \in touched' : UnderTrashRoot(path)]_vars
    /\ [][\A entry_name \in {n \in EscapeNames : ResolvesOutside(n)} :
            \A original_path \in EscapeOriginalPaths :
               (\/ TrashDeleteEntry(entry_name)
                \/ RestoreEntry(entry_name, original_path))
                  => (outcome' = "BadRequest" /\ disk' = disk)]_vars

\* a record whose entry name leads out of the trash root was refused after
\* entries of the trash root had been removed or restored: what is outside
\* of the trash root is all there
C39_Witness ==
    /\ outcome = "BadRequest"
    /\ touched = {}
    /\ ~DiskExists(disk, EscapeTrashRoot \o <<"/", "f">>)
    /\ ~DiskExists(disk, EscapeTrashRoot \o <<"/", "d">>)
    /\ DiskExists(disk, <<"/", "r", "/", "h">>)
    /\ \A e \in EscapeDisk : ~UnderTrashRoot(e.path) => e \in disk

====
